---- MODULE Spec2Model ----
(***************************************************************************)
(* A model of the sCO2 recompression-cycle solver of tcs/sco2_pc_core.cpp. *)
(*                                                                         *)
(* Numbers.  The C++ code computes in IEEE doubles.  The model computes on *)
(* a grid of integers extended by three IEEE specials (NaN, +Inf, -Inf):   *)
(* a quotient is rounded toward zero (the grid's rounding), x/0 is an      *)
(* infinity or NaN, and every ordered comparison with NaN is false.        *)
(* Thresholds of the code are given in grid units: the 1e-12 conductance   *)
(* floor and the 1e-14 duty floor are one unit each, the 1e-6 temperature  *)
(* tolerance is two units, and a fraction f is kept as its numerator over  *)
(* FracDen.                                                                *)
(*                                                                         *)
(* The fluid property oracle (CO2_TP, CO2_PH, CO2_PS, CO2_HS) is not part  *)
(* of the modelled sources.  It is represented by an ideal-gas-like        *)
(* surrogate with h = T, s = T*SK/P, rho = P*DK/T, which fails (with the   *)
(* error code of the scenario) at one chosen call site, or when asked for  *)
(* a state outside its domain.                                             *)
(***************************************************************************)
EXTENDS Integers, Sequences, FiniteSets, TLC

\* ------------------------------------------------------------------------
\* IEEE specials and arithmetic on the extended grid

NaN == 2000000000
PInf == 1000000000
NInf == -1000000000

IsFinite(x) == x # NaN /\ x # PInf /\ x # NInf
IsNaN(x) == x = NaN

Abs(x) == IF x < 0 THEN -x ELSE x
Sgn(x) == IF x > 0 THEN 1 ELSE IF x < 0 THEN -1 ELSE 0

\* quotient of two finite numbers, b # 0, rounded toward zero
TDiv(a, b) ==
    IF Sgn(a) * Sgn(b) >= 0 THEN Abs(a) \div Abs(b) ELSE -(Abs(a) \div Abs(b))

FNeg(x) == IF x = NaN THEN NaN ELSE IF x = PInf THEN NInf ELSE IF x = NInf THEN PInf ELSE -x

FAdd(a, b) ==
    IF a = NaN \/ b = NaN THEN NaN
    ELSE IF ~IsFinite(a) THEN (IF ~IsFinite(b) /\ a # b THEN NaN ELSE a)
    ELSE IF ~IsFinite(b) THEN b
    ELSE IF a + b >= PInf THEN PInf
    ELSE IF a + b <= NInf THEN NInf
    ELSE a + b

FSub(a, b) == FAdd(a, FNeg(b))

FMul(a, b) ==
    IF a = NaN \/ b = NaN THEN NaN
    ELSE IF ~IsFinite(a) \/ ~IsFinite(b)
         THEN (IF Sgn(a) * Sgn(b) = 0 THEN NaN
               ELSE IF Sgn(a) * Sgn(b) > 0 THEN PInf ELSE NInf)
    ELSE IF b # 0 /\ Abs(a) >= PInf \div Abs(b)
         THEN (IF Sgn(a) * Sgn(b) > 0 THEN PInf ELSE NInf)
    ELSE a * b

FDiv(a, b) ==
    IF a = NaN \/ b = NaN THEN NaN
    ELSE IF ~IsFinite(a) THEN (IF ~IsFinite(b) THEN NaN ELSE IF b >= 0 THEN a ELSE FNeg(a))
    ELSE IF ~IsFinite(b) THEN 0
    ELSE IF b = 0 THEN (IF a = 0 THEN NaN ELSE IF a > 0 THEN PInf ELSE NInf)
    ELSE TDiv(a, b)

FLt(a, b) == a # NaN /\ b # NaN /\ a < b
FLe(a, b) == a # NaN /\ b # NaN /\ a <= b
FGt(a, b) == FLt(b, a)
FGe(a, b) == FLe(b, a)
FAbs(x) == IF x = NaN THEN NaN ELSE IF ~IsFinite(x) THEN PInf ELSE Abs(x)

\* std::min(a, b) is (b < a) ? b : a and std::max(a, b) is (a < b) ? b : a
StdMin(a, b) == IF FLt(b, a) THEN b ELSE a
StdMax(a, b) == IF FLt(a, b) THEN b ELSE a

\* 0.5*(lower + upper)
Bisect(lower, upper) == FDiv(FAdd(lower, upper), 2)

\* ------------------------------------------------------------------------
\* Grid units and scales

FracDen == 4
SK == 100
DK == 100

\* the error codes the oracle may give
OracleErrCodes == {3, 20}

\* the scenario of one solve: the oracle call site that fails (or "none"),
\* the code the oracle fails with, and the call site (or "none") where the
\* fluid's temperature at given enthalpy lies RealGasShift above the
\* ideal-gas value
NoFail == [failSite |-> "none", failCode |-> 3, hotSite |-> "none"]

RealGasShift == 1000

OracleFails(env, site, a, b) ==
    \/ env.failSite = site
    \/ ~IsFinite(a) \/ ~IsFinite(b)
    \/ a <= 0 \/ b <= 0

BadState(env) ==
    [err |-> env.failCode, temp |-> NaN, pres |-> NaN, enth |-> NaN, entr |-> NaN, dens |-> NaN]

CO2_TP(env, site, T, P) ==
    IF OracleFails(env, site, T, P) THEN BadState(env)
    ELSE [err |-> 0, temp |-> T, pres |-> P, enth |-> T,
          entr |-> (T * SK) \div P, dens |-> (P * DK) \div T]

CO2_PH(env, site, P, h) ==
    IF OracleFails(env, site, P, h) THEN BadState(env)
    ELSE [err |-> 0, temp |-> IF env.hotSite = site THEN h + RealGasShift ELSE h,
          pres |-> P, enth |-> h,
          entr |-> (h * SK) \div P, dens |-> (P * DK) \div h]

CO2_PS(env, site, P, s) ==
    IF OracleFails(env, site, P, s) THEN BadState(env)
    ELSE LET T == IF (s * P) \div SK < 1 THEN 1 ELSE (s * P) \div SK
         IN [err |-> 0, temp |-> T, pres |-> P, enth |-> T,
             entr |-> (T * SK) \div P, dens |-> (P * DK) \div T]

CO2_HS(env, site, h, s) ==
    IF OracleFails(env, site, h, s) THEN BadState(env)
    ELSE LET P == IF (h * SK) \div s < 1 THEN 1 ELSE (h * SK) \div s
         IN [err |-> 0, temp |-> h, pres |-> P, enth |-> h,
             entr |-> (h * SK) \div P, dens |-> (P * DK) \div h]

\* ------------------------------------------------------------------------
\* calculate_turbomachinery_outlet_1: outlet state of a compressor or a
\* turbine from its isentropic efficiency (eta in percent).  The result
\* holds the error code and the values written through the references;
\* wrote_dens_in tells that dens_in was assigned before a later failure.

TurboFail(e, wrote, d) ==
    [error_code |-> e, wrote_dens_in |-> wrote, enth_in |-> NaN, entr_in |-> NaN, dens_in |-> d,
     temp_out |-> NaN, enth_out |-> NaN, entr_out |-> NaN, dens_out |-> NaN, spec_work |-> NaN]

calculate_turbomachinery_outlet_1(env, site, T_in, P_in, P_out, eta, is_comp) ==
    LET in == CO2_TP(env, site \o ".TP", T_in, P_in) IN
    IF in.err # 0 THEN TurboFail(in.err, FALSE, NaN)
    ELSE LET s_out == CO2_PS(env, site \o ".PS", P_out, in.entr) IN
    IF s_out.err # 0 THEN TurboFail(s_out.err, TRUE, in.dens)
    ELSE LET w_s == in.enth - s_out.enth
             w == IF is_comp THEN FDiv(w_s * 100, eta) ELSE FDiv(w_s * eta, 100)
             h_out == FSub(in.enth, w)
             out == CO2_PH(env, site \o ".PH", P_out, h_out) IN
    IF out.err # 0 THEN TurboFail(out.err, TRUE, in.dens)
    ELSE [error_code |-> 0, wrote_dens_in |-> TRUE, enth_in |-> in.enth, entr_in |-> in.entr,
          dens_in |-> in.dens, temp_out |-> out.temp, enth_out |-> h_out,
          entr_out |-> out.entr, dens_out |-> out.dens, spec_work |-> w]

\* ------------------------------------------------------------------------
\* calculate_hxr_UA_1: conductance of a counterflow heat exchanger split in
\* N_hxrs sections.  error_code, UA and min_DT are the values the caller's
\* variables hold at the call; the result holds their values at the return
\* and the number of oracle calls made.

\* variant: the zero-duty test taken strictly (Q_dot < 1.E-14)
QDotFloorStrict == 1 - 1

QDotFloor == 1

\* oracle is the code of the oracle call that failed in the evaluation, or 0
HxrRet(e, UA, min_DT, calls, oracle) ==
    [error_code |-> e, UA |-> UA, min_DT |-> min_DT, calls |-> calls, oracle |-> oracle]

\* NTU*C_dot_min of one section; the logarithm of the C_R # 1 branch is
\* taken by its first Pade approximant ln x ~ 2(x-1)/(x+1)
SectionUA(q, C_dot_min, C_dot_max, D) ==
    IF C_dot_min = C_dot_max /\ C_dot_min # NaN
    THEN FDiv(FMul(C_dot_min, q), FSub(FMul(C_dot_min, D), q))
    ELSE FDiv(FMul(FMul(2, q), FMul(C_dot_min, C_dot_max)),
              FSub(FMul(FMul(2, D), FMul(C_dot_min, C_dot_max)),
                   FMul(q, FAdd(C_dot_min, C_dot_max))))

RECURSIVE HxrNodes(_, _, _, _, _, _, _, _)
HxrNodes(env, site, g, i, UA, min_DT, prev, calls) ==
    IF i >= g.N_nodes THEN
        IF UA = NaN THEN HxrRet(14, UA, min_DT, calls, 0) ELSE HxrRet(g.error_code, UA, min_DT, calls, 0)
    ELSE
    LET P_c == FAdd(g.P_c_out, FDiv(FMul(i, FSub(g.P_c_in, g.P_c_out)), g.N_nodes - 1))
        P_h == FSub(g.P_h_in, FDiv(FMul(i, FSub(g.P_h_in, g.P_h_out)), g.N_nodes - 1))
        h_c == FAdd(g.h_c_out, FDiv(FMul(i, FSub(g.h_c_in, g.h_c_out)), g.N_nodes - 1))
        h_h == FSub(g.h_h_in, FDiv(FMul(i, FSub(g.h_h_in, g.h_h_out)), g.N_nodes - 1))
        hot == CO2_PH(env, site \o ".PHh", P_h, h_h) IN
    IF hot.err # 0 THEN HxrRet(12, UA, min_DT, calls + 1, hot.err)
    ELSE LET cold == CO2_PH(env, site \o ".PHc", P_c, h_c) IN
    IF cold.err # 0 THEN HxrRet(13, UA, min_DT, calls + 2, cold.err)
    ELSE IF cold.temp >= hot.temp THEN HxrRet(11, UA, min_DT, calls + 2, 0)
    ELSE
    LET T_h == hot.temp
        T_c == cold.temp
        new_min_DT == StdMin(min_DT, T_h - T_c)
        C_dot_h == FDiv(FMul(g.m_dot_h, FSub(prev.h_h, h_h)), prev.T_h - T_h)
        C_dot_c == FDiv(FMul(g.m_dot_c, FSub(prev.h_c, h_c)), prev.T_c - T_c)
        C_dot_min == StdMin(C_dot_h, C_dot_c)
        C_dot_max == StdMax(C_dot_h, C_dot_c)
        q == FDiv(g.Q_dot, g.N_nodes - 1)
        new_UA == IF i > 0 THEN FAdd(UA, SectionUA(q, C_dot_min, C_dot_max, prev.T_h - T_c))
                  ELSE UA
    IN HxrNodes(env, site, g, i + 1, new_UA, new_min_DT,
                [h_h |-> h_h, T_h |-> T_h, h_c |-> h_c, T_c |-> T_c], calls + 2)

\* variant: the zero-duty shortcut answers before the pressures are checked
HxrInputErrorNoPressure(Q_dot, T_c_in, T_h_in, P_c_in, P_c_out, P_h_in, P_h_out) ==
    IF FLt(Q_dot, 0) THEN 4
    ELSE IF FLt(T_h_in, T_c_in) THEN 5
    ELSE IF FLe(Q_dot, 1) THEN 0
    ELSE IF FLt(P_h_in, P_h_out) THEN 6
    ELSE IF FLt(P_c_in, P_c_out) THEN 7
    ELSE 0

\* the input checks of calculate_hxr_UA_1: the error code, or 0
HxrInputError(Q_dot, T_c_in, T_h_in, P_c_in, P_c_out, P_h_in, P_h_out) ==
    IF FLt(Q_dot, 0) THEN 4
    ELSE IF FLt(T_h_in, T_c_in) THEN 5
    ELSE IF FLt(P_h_in, P_h_out) THEN 6
    ELSE IF FLt(P_c_in, P_c_out) THEN 7
    ELSE 0

calculate_hxr_UA_1(env, site, N_hxrs, Q_dot, m_dot_c, m_dot_h, T_c_in, T_h_in, P_c_in, P_c_out, P_h_in, P_h_out, error_code, UA, min_DT) ==
    IF HxrInputError(Q_dot, T_c_in, T_h_in, P_c_in, P_c_out, P_h_in, P_h_out) # 0
    THEN HxrRet(HxrInputError(Q_dot, T_c_in, T_h_in, P_c_in, P_c_out, P_h_in, P_h_out),
                UA, min_DT, 0, 0)
    ELSE IF FLe(Q_dot, QDotFloor) THEN HxrRet(error_code, 0, FSub(T_h_in, T_c_in), 0, 0)
    ELSE LET c_in == CO2_TP(env, site \o ".TPc", T_c_in, P_c_in) IN
    IF c_in.err # 0 THEN HxrRet(c_in.err, UA, min_DT, 1, c_in.err)
    ELSE LET h_in == CO2_TP(env, site \o ".TPh", T_h_in, P_h_in) IN
    IF h_in.err # 0 THEN HxrRet(9, UA, min_DT, 2, h_in.err)
    ELSE
    LET g == [N_nodes |-> N_hxrs + 1, Q_dot |-> Q_dot, m_dot_c |-> m_dot_c, m_dot_h |-> m_dot_h,
              P_c_in |-> P_c_in, P_c_out |-> P_c_out, P_h_in |-> P_h_in, P_h_out |-> P_h_out,
              h_c_in |-> c_in.enth, h_h_in |-> h_in.enth,
              h_c_out |-> FAdd(c_in.enth, FDiv(Q_dot, m_dot_c)),
              h_h_out |-> FSub(h_in.enth, FDiv(Q_dot, m_dot_h)),
              error_code |-> error_code]
    IN HxrNodes(env, site, g, 0, 0, T_h_in, [h_h |-> 0, T_h |-> 0, h_c |-> 0, T_c |-> 0], 2)

\* ------------------------------------------------------------------------
\* isen_eta_from_poly_eta: isentropic efficiency equivalent to a polytropic
\* one.  The two oracle calls at the inlet are kept; the 200-stage
\* integration is one step that the oracle may fail, and its result is the
\* polytropic efficiency moved by PolyGap (down for a compressor, up for a
\* turbine).

PolyGap == 2

isen_eta_from_poly_eta(env, site, T_in, P_in, P_out, poly_eta, is_comp) ==
    LET in == CO2_TP(env, site \o ".TP", T_in, P_in) IN
    IF in.err # 0 THEN [error_code |-> in.err, isen_eta |-> NaN]
    ELSE LET s_out == CO2_PS(env, site \o ".PS", P_out, in.entr) IN
    IF s_out.err # 0 THEN [error_code |-> s_out.err, isen_eta |-> NaN]
    ELSE IF env.failSite = site \o ".stage" THEN [error_code |-> env.failCode, isen_eta |-> NaN]
    ELSE [error_code |-> 0,
          isen_eta |-> IF is_comp THEN poly_eta - PolyGap ELSE poly_eta + PolyGap]

\* ------------------------------------------------------------------------
\* State of the program

VARIABLES
    pc,           \* position of the running call
    error_code,   \* the error code handed to the caller (0 while running)
    env,          \* the oracle's failure scenario
    ms_des_par,   \* design parameters
    ms_od_par,    \* off-design parameters
    m_last,       \* m_temp_last, m_pres_last, m_enth_last, m_entr_last, m_dens_last
    m_od,         \* m_temp_od, m_pres_od, m_enth_od, m_entr_od, m_dens_od
    loc,          \* the locals of the running solve
    perf,         \* design records and results: m_LT, m_HT, ..., ms_od_solved
    opt,          \* ms_opt_des_par, ms_des_par_optimal, m_eta_thermal_opt
    arg,          \* the arguments of the running call
    ret,          \* what the call returned
    obs           \* what the last step did (history variable)

vars == <<pc, error_code, env, ms_des_par, ms_od_par, m_last, m_od, loc, perf, opt, arg, ret, obs>>

Nodes == 1..10

Unset == [i \in Nodes |-> NaN]
UnsetStates == [temp |-> Unset, pres |-> Unset, enth |-> Unset, entr |-> Unset, dens |-> Unset]

\* variant: a cap one iteration short
max_iter_design_short == 500 - 1

max_iter_design == 500
temperature_tolerance == 2
UAFloor == 1

\* f >= 1.E-12 for a fraction kept as its numerator over FracDen
HasRecompressor(f) == f >= 1

loc0 ==
    [m_dot_t |-> 0, m_dot_mc |-> 0, m_dot_rc |-> 0, Q_dot_LT |-> 0, Q_dot_HT |-> 0,
     UA_LT_calc |-> 0, UA_HT_calc |-> 0,
     w_mc |-> NaN, w_t |-> NaN, w_rc |-> NaN,
     T8_lower_bound |-> NaN, T8_upper_bound |-> NaN, last_HT_residual |-> NaN, last_T8_guess |-> NaN,
     T9_lower_bound |-> NaN, T9_upper_bound |-> NaN, last_LT_residual |-> NaN, last_T9_guess |-> NaN,
     min_DT_LT |-> NaN, min_DT_HT |-> NaN, T8_iter |-> -1, T9_iter |-> -1,
     m_dot_lower_bound |-> NaN, m_dot_upper_bound |-> NaN, last_m_dot_guess |-> NaN,
     last_m_dot_residual |-> NaN, first_pass |-> TRUE, m_dot_iter |-> -1,
     UA_LT |-> NaN, UA_HT |-> NaN, N_rc |-> NaN, surge |-> FALSE]

NoHx == [m_DP_design |-> <<NaN, NaN>>, m_eff_design |-> NaN, m_min_DT_design |-> NaN,
         m_m_dot_design |-> <<NaN, NaN>>, m_N_sub |-> -1, m_Q_dot_design |-> NaN,
         m_UA_design |-> NaN]

NoComp == [m_D_rotor |-> NaN, m_N_design |-> NaN, m_eta_design |-> NaN, m_A_nozzle |-> NaN,
           m_m_dot_max |-> NaN]

perf0 ==
    [m_W_dot_net_last |-> NaN, m_eta_thermal_last |-> NaN,
     m_LT |-> NoHx, m_HT |-> NoHx, m_PHX |-> NoHx, m_PC |-> NoHx,
     m_mc |-> NoComp, m_t |-> NoComp, m_rc |-> NoComp,
     m_m_dot_mc |-> NaN, m_m_dot_rc |-> NaN, m_m_dot_t |-> NaN,
     ms_od_solved |-> [set |-> FALSE], ms_des_solved |-> [set |-> FALSE, m_is_rc |-> FALSE]]

obs0 ==
    [step |-> "init", outcome |-> "none", hx_called |-> FALSE, hx_error_code |-> 0,
     hx_flow |-> NaN, residual |-> NaN, min_DT |-> NaN, secant_guess |-> NaN,
     guess |-> NaN, oracle_failure |-> 0, last_guess |-> NaN, last_residual |-> NaN,
     comp_error_code |-> 0]

\* the step's record: what was evaluated and what became of it
Obs(step, outcome) == [obs0 EXCEPT !.step = step, !.outcome = outcome]

\* ------------------------------------------------------------------------
\* Pressure drops of design_core_standard: a negative DP is a relative drop
\* (in percent), a non-negative one an absolute drop

ColdOutletPressure(P_in, DP) ==
    IF DP < 0 THEN P_in - TDiv(P_in * Abs(DP), 100) ELSE P_in - DP

HotInletPressure(P_out, DP) ==
    IF DP < 0 THEN TDiv(P_out * 100, 100 - Abs(DP)) ELSE P_out + DP

DesignPressures(par) ==
    LET P1 == par.m_P_mc_in
        P2 == par.m_P_mc_out
        P3 == IF par.m_UA_LT < UAFloor THEN P2 ELSE ColdOutletPressure(P2, par.m_DP_LT[1])
        P4 == P3
        P10 == P3
        P5 == IF par.m_UA_HT < UAFloor THEN P4 ELSE ColdOutletPressure(P4, par.m_DP_HT[1])
        P6 == ColdOutletPressure(P5, par.m_DP_PHX[1])
        P9 == HotInletPressure(P1, par.m_DP_PC[2])
        P8 == IF par.m_UA_LT < UAFloor THEN P9 ELSE HotInletPressure(P9, par.m_DP_LT[2])
        P7 == IF par.m_UA_HT < UAFloor THEN P8 ELSE HotInletPressure(P8, par.m_DP_HT[2])
    IN <<P1, P2, P3, P4, P5, P6, P7, P8, P9, P10>>

\* x / tol-comparison of the loops: a / UA < m_tol, with m_tol = num/den
RelBelowTol(a, UA, tol) ==
    IF a = NaN \/ UA = NaN THEN FALSE
    ELSE IF UA > 0 THEN FLt(FMul(a, tol.den), FMul(tol.num, UA))
    ELSE IF UA < 0 THEN FLt(FMul(tol.num, UA), FMul(a, tol.den))
    ELSE FLt(FDiv(a, 0), tol.num)

\* secant prediction: guess - residual*(last_guess - guess)/(last_residual - residual)
SecantGuess(guess, residual, last_guess, last_residual) ==
    FSub(guess, FDiv(FMul(residual, FSub(last_guess, guess)), FSub(last_residual, residual)))

\* variant: the temperature floor tested whatever the sign of the residual
ConvergenceTestAnySign(residual, UA_target, min_DT, tol) ==
    \/ FLt(FAbs(residual), 1)
    \/ RelBelowTol(FAbs(residual), UA_target, tol)
    \/ FLt(min_DT, 2)

\* the test that ends a recuperator loop with success, once the exchanger
\* evaluation has succeeded
ConvergenceTest(residual, UA_target, min_DT, tol) ==
    \/ FLt(FAbs(residual), UAFloor)
    \/ IF FLt(residual, 0)
       THEN RelBelowTol(FAbs(residual), UA_target, tol)
       ELSE \/ RelBelowTol(residual, UA_target, tol)
            \/ FLt(min_DT, temperature_tolerance)

\* the guess of the next iteration; nan_check tells whether the loop tests
\* the prediction for NaN (the T9 loops do, the T8 loops do not)
NextGuess(secant_guess, lower, upper, nan_check) ==
    IF FLe(secant_guess, lower) \/ FGe(secant_guess, upper) \/ (nan_check /\ secant_guess = NaN)
    THEN Bisect(lower, upper)
    ELSE secant_guess

\* variant: every nonzero exchanger code ends the solve
HxErrorActionAbort(hx_error_code) ==
    IF hx_error_code = 0 THEN "go on" ELSE "return"

\* what a recuperator loop does with an exchanger error code
HxErrorAction(hx_error_code) ==
    IF hx_error_code = 0 THEN "go on"
    ELSE IF hx_error_code = 11 THEN "bisect"
    ELSE "return"

\* writes of calculate_turbomachinery_outlet_1 into the state arrays
WriteTurbo(st, r, i, o) ==
    IF r.error_code # 0
    THEN (IF r.wrote_dens_in THEN [st EXCEPT !.dens[i] = r.dens_in] ELSE st)
    ELSE [st EXCEPT !.enth[i] = r.enth_in, !.entr[i] = r.entr_in, !.dens[i] = r.dens_in,
                    !.temp[o] = r.temp_out, !.enth[o] = r.enth_out,
                    !.entr[o] = r.entr_out, !.dens[o] = r.dens_out]

WriteState(st, c, i) ==
    [st EXCEPT !.temp[i] = c.temp, !.enth[i] = c.enth, !.entr[i] = c.entr, !.dens[i] = c.dens]

CopyState(st, from, to) ==
    [st EXCEPT !.temp[to] = st.temp[from], !.enth[to] = st.enth[from],
               !.entr[to] = st.entr[from], !.dens[to] = st.dens[from]]

\* the result of one step of a solve
Step(next, err, st, l, o) == [next |-> next, err |-> err, st |-> st, loc |-> l, obs |-> o]

\* the step ends the solve with the oracle's error code
OracleAbort(step, code, st, l) ==
    Step("done", code, st, l, [Obs(step, "return") EXCEPT !.oracle_failure = code])

EtaIsen(env_, site, eta, T_in, P_in, P_out, is_comp) ==
    IF eta < 0 THEN isen_eta_from_poly_eta(env_, site, T_in, P_in, P_out, Abs(eta), is_comp)
    ELSE [error_code |-> 0, isen_eta |-> eta]

\* ------------------------------------------------------------------------
\* design_core_standard, up to the entry of the T8 loop

DesignSetup(par, e, st) ==
    LET With_P(P) ==
            LET st0 == [st EXCEPT !.temp[1] = par.m_T_mc_in, !.temp[6] = par.m_T_t_in,
                                           !.pres = [i \in Nodes |-> P[i]]]
                With_eta_mc(eta_mc) ==
                    LET With_eta_t(eta_t) ==
                            LET With_mc(mc) ==
                                    LET st1 == WriteTurbo(st0, mc, 1, 2)
                                        With_t(t) ==
                                            LET st2 == WriteTurbo(st1, t, 6, 7)
                                                l2 == [loc0 EXCEPT !.w_mc = mc.spec_work, !.w_t = t.spec_work]
                                                With_eta_rc(eta_rc) ==
                                                    LET With_rc(rc) ==
                                                            LET l3 == [l2 EXCEPT !.w_rc = rc.spec_work]
                                                            IN
                                                            IF eta_mc.error_code # 0 THEN OracleAbort("start", eta_mc.error_code, st0, loc0)
                                                            ELSE IF eta_t.error_code # 0 THEN OracleAbort("start", eta_t.error_code, st0, loc0)
                                                            ELSE IF mc.error_code # 0 THEN OracleAbort("start", mc.error_code, st1, loc0)
                                                            ELSE IF t.error_code # 0 THEN OracleAbort("start", t.error_code, st2, loc0)
                                                            ELSE IF eta_rc.error_code # 0 THEN OracleAbort("start", eta_rc.error_code, st2, l2)
                                                            ELSE IF rc.error_code # 0 THEN OracleAbort("start", rc.error_code, st2, l2)
                                                            ELSE IF FLe(FAdd(FAdd(mc.spec_work, rc.spec_work), t.spec_work), 0)
                                                                 THEN Step("done", 25, st2, l3, Obs("start", "return"))
                                                            ELSE IF par.m_UA_HT < UAFloor
                                                                 THEN Step("T8_head", 0, [st2 EXCEPT !.temp[8] = st2.temp[7]],
                                                                           [l3 EXCEPT !.T8_lower_bound = st2.temp[7], !.T8_upper_bound = st2.temp[7],
                                                                                      !.UA_HT_calc = 0, !.last_HT_residual = 0,
                                                                                      !.last_T8_guess = st2.temp[7], !.T8_iter = 0],
                                                                           Obs("start", "enter"))
                                                                 ELSE Step("T8_head", 0, [st2 EXCEPT !.temp[8] = Bisect(st2.temp[2], st2.temp[7])],
                                                                           [l3 EXCEPT !.T8_lower_bound = st2.temp[2], !.T8_upper_bound = st2.temp[7],
                                                                                      !.UA_HT_calc = -1, !.last_HT_residual = par.m_UA_HT,
                                                                                      !.last_T8_guess = st2.temp[7], !.T8_iter = 0],
                                                                           Obs("start", "enter"))
                                                    IN  With_rc(IF HasRecompressor(par.m_recomp_frac)
                                                                THEN calculate_turbomachinery_outlet_1(e, "rc0", st2.temp[2], P[9], P[10],
                                                                                                       eta_rc.isen_eta, TRUE)
                                                                ELSE [error_code |-> 0, spec_work |-> 0])
                                            IN  With_eta_rc(IF HasRecompressor(par.m_recomp_frac)
                                                            THEN EtaIsen(e, "rc0poly", par.m_eta_rc, st2.temp[2], P[9], P[10], TRUE)
                                                            ELSE [error_code |-> 0, isen_eta |-> NaN])
                                    IN  With_t(calculate_turbomachinery_outlet_1(e, "t", st1.temp[6], P[6], P[7], eta_t.isen_eta, FALSE))
                            IN  With_mc(calculate_turbomachinery_outlet_1(e, "mc", st0.temp[1], P[1], P[2], eta_mc.isen_eta, TRUE))
                    IN  With_eta_t(EtaIsen(e, "tpoly", par.m_eta_t, st0.temp[6], P[6], P[7], FALSE))
            IN  With_eta_mc(EtaIsen(e, "mcpoly", par.m_eta_mc, st0.temp[1], P[1], P[2], TRUE))
    IN  With_P(DesignPressures(par))

\* the head of a T8 iteration: state 8 and the initial bracket of the T9 loop
T8Head(par, e, st, l) ==
    LET c == CO2_TP(e, "s8", st.temp[8], st.pres[8]) IN
    IF c.err # 0 THEN OracleAbort("T8head", c.err, st, l)
    ELSE
    LET st1 == [st EXCEPT !.enth[8] = c.enth, !.entr[8] = c.entr, !.dens[8] = c.dens] IN
    IF par.m_UA_LT < UAFloor
    THEN Step("T9_iter", 0, [st1 EXCEPT !.temp[9] = st1.temp[8]],
              [l EXCEPT !.T9_lower_bound = st1.temp[8], !.T9_upper_bound = st1.temp[8],
                        !.UA_LT_calc = 0, !.last_LT_residual = 0,
                        !.last_T9_guess = st1.temp[8], !.T9_iter = 0],
              Obs("T8head", "enter"))
    ELSE Step("T9_iter", 0, [st1 EXCEPT !.temp[9] = Bisect(st1.temp[2], st1.temp[8])],
              [l EXCEPT !.T9_lower_bound = st1.temp[2], !.T9_upper_bound = st1.temp[8],
                        !.UA_LT_calc = -1, !.last_LT_residual = par.m_UA_LT,
                        !.last_T9_guess = st1.temp[8], !.T9_iter = 0],
              Obs("T8head", "enter"))

\* where a loop goes after an iteration that did not break: the increment
\* of the for statement and its test
AfterIteration(iter, max_iter, again, after) ==
    IF iter + 1 < max_iter THEN again ELSE after

\* recompressor outlet (or the copy of node 9 into node 10) of a T9 iteration
DesignRecompressor(par, e, st) ==
    IF HasRecompressor(par.m_recomp_frac)
    THEN LET eta_rc == EtaIsen(e, "rcpoly", par.m_eta_rc, st.temp[9], st.pres[9], st.pres[10], TRUE) IN
         IF eta_rc.error_code # 0 THEN [err |-> eta_rc.error_code, st |-> st, w_rc |-> NaN]
         ELSE LET r == calculate_turbomachinery_outlet_1(e, "rc", st.temp[9], st.pres[9], st.pres[10],
                                                        eta_rc.isen_eta, TRUE)
              IN [err |-> r.error_code, st |-> WriteTurbo(st, r, 9, 10), w_rc |-> r.spec_work]
    ELSE LET c == CO2_TP(e, "s9", st.temp[9], st.pres[9]) IN
         IF c.err # 0 THEN [err |-> c.err, st |-> st, w_rc |-> 0]
         ELSE [err |-> 0, w_rc |-> 0,
               st |-> [st EXCEPT !.enth[9] = c.enth, !.entr[9] = c.entr, !.dens[9] = c.dens,
                                 !.temp[10] = st.temp[9], !.enth[10] = c.enth,
                                 !.entr[10] = c.entr, !.dens[10] = c.dens]]

\* m_W_dot_net / (w_mc*(1 - f) + w_rc*f + w_t)
TurbineMassFlow(W_dot_net, w_mc, w_rc, w_t, f) ==
    FDiv(FMul(W_dot_net, FracDen),
         FAdd(FAdd(FMul(w_mc, FracDen - f), FMul(w_rc, f)), FMul(w_t, FracDen)))

\* the test that rejects the mass flow of a T9 iteration
MassFlowRejected(m_dot_t) == FLt(m_dot_t, 0)

\* one iteration of the T9 loop of design_core_standard
T9Step(par, e, st, l) ==
    LET With_rc(rc) ==
            LET st1 == rc.st
                f == par.m_recomp_frac
                m_dot_t == TurbineMassFlow(par.m_W_dot_net, l.w_mc, rc.w_rc, l.w_t, f)
                m_dot_rc == FDiv(FMul(m_dot_t, f), FracDen)
                m_dot_mc == FSub(m_dot_t, m_dot_rc)
                Q_dot_LT == IF par.m_UA_LT < UAFloor THEN 0
                            ELSE FMul(m_dot_t, FSub(st1.enth[8], st1.enth[9]))
                l1 == [l EXCEPT !.w_rc = rc.w_rc, !.m_dot_t = m_dot_t]
                l2 == [l1 EXCEPT !.m_dot_rc = m_dot_rc, !.m_dot_mc = m_dot_mc, !.Q_dot_LT = Q_dot_LT]
                With_hx(hx) ==
                    LET l3 == [l2 EXCEPT !.UA_LT_calc = hx.UA, !.min_DT_LT = hx.min_DT]
                        o3 == [Obs("T9", "return") EXCEPT !.hx_called = TRUE, !.hx_error_code = hx.error_code,
                                                          !.hx_flow = m_dot_t, !.guess = st1.temp[9],
                                                          !.oracle_failure = hx.oracle,
                                                          !.last_guess = l.last_T9_guess,
                                                          !.last_residual = l.last_LT_residual]
                        residual == FSub(par.m_UA_LT, hx.UA)
                        secant_guess == SecantGuess(st1.temp[9], residual, l.last_T9_guess, l.last_LT_residual)
                        o4 == [o3 EXCEPT !.residual = residual, !.min_DT = hx.min_DT, !.secant_guess = secant_guess]
                        lower == IF FLt(residual, 0) THEN st1.temp[9] ELSE l.T9_lower_bound
                        upper == IF FLt(residual, 0) THEN l.T9_upper_bound ELSE st1.temp[9]
                        after == AfterIteration(l.T9_iter, max_iter_design, "T9_iter", "T8_body")
                    IN
                    IF rc.err # 0 THEN OracleAbort("T9", rc.err, st1, [l EXCEPT !.w_rc = rc.w_rc])
                    ELSE IF MassFlowRejected(m_dot_t)
                         THEN Step("done", 29, st1, l1, [Obs("T9", "return") EXCEPT !.hx_flow = m_dot_t])
                    ELSE IF HxErrorAction(hx.error_code) = "bisect"
                         THEN Step(after, 0,
                                   [st1 EXCEPT !.temp[9] = Bisect(st1.temp[9], l.T9_upper_bound)],
                                   [l3 EXCEPT !.T9_lower_bound = st1.temp[9], !.T9_iter = l.T9_iter + 1],
                                   [o3 EXCEPT !.outcome = "bisect11"])
                    ELSE IF HxErrorAction(hx.error_code) = "return"
                         THEN Step("done", hx.error_code, st1, l3, o3)
                    ELSE IF ConvergenceTest(residual, par.m_UA_LT, hx.min_DT, par.m_tol)
                         THEN Step("T8_body", 0, st1, l3, [o4 EXCEPT !.outcome = "converged"])
                    ELSE Step(after, 0,
                              [st1 EXCEPT !.temp[9] = NextGuess(secant_guess, lower, upper, TRUE)],
                              [l3 EXCEPT !.T9_lower_bound = lower, !.T9_upper_bound = upper,
                                         !.last_LT_residual = residual, !.last_T9_guess = st1.temp[9],
                                         !.T9_iter = l.T9_iter + 1],
                              [o4 EXCEPT !.outcome = "advance"])
            IN  With_hx(calculate_hxr_UA_1(e, "LT", par.m_N_sub_hxrs, Q_dot_LT, m_dot_mc, m_dot_t,
                                           st1.temp[2], st1.temp[8], st1.pres[2], st1.pres[3],
                                           st1.pres[8], st1.pres[9], 0, l.UA_LT_calc, NaN))
    IN  With_rc(DesignRecompressor(par, e, st))

\* the mixing valve: state 4 from states 3 and 10
MixingValve(par, e, st) ==
    IF HasRecompressor(par.m_recomp_frac)
    THEN LET f == par.m_recomp_frac
             h4 == FDiv(FAdd(FMul(FracDen - f, st.enth[3]), FMul(f, st.enth[10])), FracDen)
             c == CO2_PH(e, "s4", st.pres[4], h4)
         IN IF c.err # 0 THEN [err |-> c.err, st |-> [st EXCEPT !.enth[4] = h4]]
            ELSE [err |-> 0, st |-> [st EXCEPT !.enth[4] = h4, !.temp[4] = c.temp,
                                               !.entr[4] = c.entr, !.dens[4] = c.dens]]
    ELSE [err |-> 0, st |-> CopyState(st, 3, 4)]

\* the rest of a T8 iteration of design_core_standard, after its T9 loop
T8Step(par, e, st, l) ==
    LET h3 == FAdd(st.enth[2], FDiv(l.Q_dot_LT, l.m_dot_mc))
        With_c3(c3) ==
            LET st3 == IF c3.err # 0 THEN [st EXCEPT !.enth[3] = h3]
                       ELSE [st EXCEPT !.enth[3] = h3, !.temp[3] = c3.temp, !.entr[3] = c3.entr,
                                       !.dens[3] = c3.dens]
                With_mix(mix) ==
                    LET st4 == mix.st
                        Q_dot_HT == IF par.m_UA_HT < UAFloor THEN 0
                                    ELSE FMul(l.m_dot_t, FSub(st4.enth[7], st4.enth[8]))
                        l1 == [l EXCEPT !.Q_dot_HT = Q_dot_HT]
                        With_hx(hx) ==
                            LET l2 == [l1 EXCEPT !.UA_HT_calc = hx.UA, !.min_DT_HT = hx.min_DT]
                                o2 == [Obs("T8", "return") EXCEPT !.hx_called = TRUE, !.hx_error_code = hx.error_code,
                                                                  !.hx_flow = l.m_dot_t, !.guess = st4.temp[8],
                                                                  !.oracle_failure = hx.oracle,
                                                                  !.last_guess = l.last_T8_guess,
                                                                  !.last_residual = l.last_HT_residual]
                                residual == FSub(par.m_UA_HT, hx.UA)
                                secant_guess == SecantGuess(st4.temp[8], residual, l.last_T8_guess, l.last_HT_residual)
                                o3 == [o2 EXCEPT !.residual = residual, !.min_DT = hx.min_DT, !.secant_guess = secant_guess]
                                lower == IF FLt(residual, 0) THEN st4.temp[8] ELSE l.T8_lower_bound
                                upper == IF FLt(residual, 0) THEN l.T8_upper_bound ELSE st4.temp[8]
                                after == AfterIteration(l.T8_iter, max_iter_design, "T8_head", "design_end")
                            IN
                            IF l.T9_iter >= max_iter_design THEN Step("done", 31, st, l, Obs("T8", "return"))
                            ELSE IF c3.err # 0 THEN OracleAbort("T8", c3.err, st3, l)
                            ELSE IF mix.err # 0 THEN OracleAbort("T8", mix.err, st4, l)
                            ELSE IF FGe(st4.temp[4], st4.temp[8])
                                 THEN Step(after, 0,
                                           [st4 EXCEPT !.temp[8] = Bisect(st4.temp[8], l.T8_upper_bound)],
                                           [l EXCEPT !.T8_lower_bound = st4.temp[8], !.T8_iter = l.T8_iter + 1],
                                           [Obs("T8", "T4geT8") EXCEPT !.guess = st4.temp[8]])
                            ELSE IF HxErrorAction(hx.error_code) = "bisect"
                                 THEN Step(after, 0,
                                           [st4 EXCEPT !.temp[8] = Bisect(st4.temp[8], l.T8_upper_bound)],
                                           [l2 EXCEPT !.T8_lower_bound = st4.temp[8], !.T8_iter = l.T8_iter + 1],
                                           [o2 EXCEPT !.outcome = "bisect11"])
                            ELSE IF HxErrorAction(hx.error_code) = "return"
                                 THEN Step("done", hx.error_code, st4, l2, o2)
                            ELSE IF ConvergenceTest(residual, par.m_UA_HT, hx.min_DT, par.m_tol)
                                 THEN Step("design_end", 0, st4, l2, [o3 EXCEPT !.outcome = "converged"])
                            ELSE Step(after, 0,
                                      [st4 EXCEPT !.temp[8] = NextGuess(secant_guess, lower, upper, FALSE)],
                                      [l2 EXCEPT !.T8_lower_bound = lower, !.T8_upper_bound = upper,
                                                 !.last_HT_residual = residual, !.last_T8_guess = st4.temp[8],
                                                 !.T8_iter = l.T8_iter + 1],
                                      [o3 EXCEPT !.outcome = "advance"])
                    IN  With_hx(calculate_hxr_UA_1(e, "HT", par.m_N_sub_hxrs, Q_dot_HT, l.m_dot_t, l.m_dot_t,
                                                   st4.temp[4], st4.temp[7], st4.pres[4], st4.pres[5],
                                                   st4.pres[7], st4.pres[8], 0, l.UA_HT_calc, NaN))
            IN  With_mix(MixingValve(par, e, st3))
    IN  With_c3(CO2_PH(e, "s3", st.pres[3], h3))

\* C_HeatExchanger::S_design_parameters of a recuperator
RecuperatorDesign(C_dot_hot, C_dot_cold, DT_max, DP_cold, DP_hot, min_DT, m_dot_cold, m_dot_hot, N_sub, Q_dot, UA) ==
    [m_DP_design |-> <<DP_cold, DP_hot>>,
     m_eff_design |-> FDiv(FMul(Q_dot, 100), FMul(StdMin(C_dot_hot, C_dot_cold), DT_max)),
     m_min_DT_design |-> min_DT, m_m_dot_design |-> <<m_dot_cold, m_dot_hot>>,
     m_N_sub |-> N_sub, m_Q_dot_design |-> Q_dot, m_UA_design |-> UA]

\* design_core_standard after the T8 loop
DesignEnd(par, e, st, l, pf) ==
    LET h5 == FAdd(st.enth[4], FDiv(l.Q_dot_HT, l.m_dot_t))
        With_c5(c5) ==
            LET st5 == [st EXCEPT !.enth[5] = h5, !.temp[5] = c5.temp, !.entr[5] = c5.entr,
                                  !.dens[5] = c5.dens]
                LT == RecuperatorDesign(
                         FDiv(FMul(l.m_dot_t, FSub(st5.enth[8], st5.enth[9])), FSub(st5.temp[8], st5.temp[9])),
                         FDiv(FMul(l.m_dot_mc, FSub(st5.enth[3], st5.enth[2])), FSub(st5.temp[3], st5.temp[2])),
                         FSub(st5.temp[8], st5.temp[2]),
                         st5.pres[2] - st5.pres[3], st5.pres[8] - st5.pres[9], l.min_DT_LT,
                         l.m_dot_mc, l.m_dot_t, par.m_N_sub_hxrs, l.Q_dot_LT, l.UA_LT_calc)
                HT == RecuperatorDesign(
                         FDiv(FMul(l.m_dot_t, FSub(st5.enth[7], st5.enth[8])), FSub(st5.temp[7], st5.temp[8])),
                         FDiv(FMul(l.m_dot_t, FSub(st5.enth[5], st5.enth[4])), FSub(st5.temp[5], st5.temp[4])),
                         FSub(st5.temp[7], st5.temp[4]),
                         st5.pres[4] - st5.pres[5], st5.pres[7] - st5.pres[8], l.min_DT_HT,
                         l.m_dot_t, l.m_dot_t, par.m_N_sub_hxrs, l.Q_dot_HT, l.UA_HT_calc)
                Q_dot_PHX == FMul(l.m_dot_t, FSub(st5.enth[6], st5.enth[5]))
                W_dot_net == FAdd(FAdd(FMul(l.w_mc, l.m_dot_mc), FMul(l.w_rc, l.m_dot_rc)),
                                  FMul(l.w_t, l.m_dot_t))
            IN
            IF l.T8_iter >= max_iter_design
            THEN [s |-> Step("done", 35, st, l, Obs("end", "return")), perf |-> pf]
            ELSE IF c5.err # 0
            THEN [s |-> OracleAbort("end", c5.err, [st EXCEPT !.enth[5] = h5], l), perf |-> pf]
            ELSE [s |-> Step("done", 0, st5, l, Obs("end", "solved")),
                  perf |-> [pf EXCEPT !.m_W_dot_net_last = W_dot_net,
                                      !.m_eta_thermal_last = FDiv(FMul(W_dot_net, 100), Q_dot_PHX),
                                      !.m_LT = LT, !.m_HT = HT,
                                      !.m_PHX = [NoHx EXCEPT !.m_DP_design = <<st5.pres[5] - st5.pres[6], 0>>,
                                                             !.m_m_dot_design = <<l.m_dot_t, 0>>,
                                                             !.m_Q_dot_design = Q_dot_PHX],
                                      !.m_PC = [NoHx EXCEPT !.m_DP_design = <<0, st5.pres[9] - st5.pres[1]>>,
                                                            !.m_m_dot_design = <<0, l.m_dot_mc>>,
                                                            !.m_Q_dot_design =
                                                                FMul(l.m_dot_mc, FSub(st5.enth[9], st5.enth[1]))],
                                      !.m_m_dot_mc = l.m_dot_mc, !.m_m_dot_rc = l.m_dot_rc,
                                      !.m_m_dot_t = l.m_dot_t]]
    IN  With_c5(CO2_PH(e, "s5", st.pres[5], h5))

\* ------------------------------------------------------------------------
\* The steps of design_core_standard as actions

ApplyDesign(r) ==
    /\ pc' = r.next
    /\ error_code' = r.err
    /\ m_last' = r.st
    /\ loc' = r.loc
    /\ obs' = r.obs

DesignStart ==
    /\ pc = "design_start"
    /\ ApplyDesign(DesignSetup(ms_des_par, env, m_last))
    /\ UNCHANGED <<env, ms_des_par, ms_od_par, m_od, perf, opt, arg, ret>>

T8LoopHead ==
    /\ pc = "T8_head"
    /\ ApplyDesign(T8Head(ms_des_par, env, m_last, loc))
    /\ UNCHANGED <<env, ms_des_par, ms_od_par, m_od, perf, opt, arg, ret>>

T9Iterate ==
    /\ pc = "T9_iter"
    /\ ApplyDesign(T9Step(ms_des_par, env, m_last, loc))
    /\ UNCHANGED <<env, ms_des_par, ms_od_par, m_od, perf, opt, arg, ret>>

T8Body ==
    /\ pc = "T8_body"
    /\ ApplyDesign(T8Step(ms_des_par, env, m_last, loc))
    /\ UNCHANGED <<env, ms_des_par, ms_od_par, m_od, perf, opt, arg, ret>>

DesignFinish ==
    /\ pc = "design_end"
    /\ LET r == DesignEnd(ms_des_par, env, m_last, loc, perf)
       IN ApplyDesign(r.s) /\ perf' = r.perf
    /\ UNCHANGED <<env, ms_des_par, ms_od_par, m_od, opt, arg, ret>>

\* ------------------------------------------------------------------------
\* Off-design component models.  Flow coefficients are in thousandths,
\* efficiencies in percent.  The fitted curves of the code (quartic head
\* and efficiency curves, the powers 0.2, 0.8 and 1.75, the square root)
\* are replaced by integer curves of the same shape: the head falls with
\* the flow coefficient and reaches zero at PhiZero, the efficiency peaks
\* at the design flow coefficient, the pressure drop grows with the square
\* of the flow ratio and the conductance with the flow ratio.

m_snl_phi_design == 30
m_snl_phi_min == 20
m_snl_phi_max == 50
PhiZero == 55
HeadScale == 500
FlowScale == 100
NozzleScale == 20

\* the largest r in lo..hi with r*r <= n, found by halving the interval
RECURSIVE SqrtFrom(_, _, _)
SqrtFrom(n, lo, hi) ==
    IF lo >= hi THEN lo
    ELSE LET mid == (lo + hi + 1) \div 2
         IN  IF mid * mid <= n THEN SqrtFrom(n, mid, hi) ELSE SqrtFrom(n, lo, mid - 1)

\* sqrt(x): NaN for a negative argument
FSqrt(x) ==
    IF x = NaN \/ x = NInf THEN NaN
    ELSE IF x = PInf THEN PInf
    ELSE IF x < 0 THEN NaN
    ELSE SqrtFrom(x, 0, 31623)

\* tip speed of a rotor of diameter D at shaft speed N
TipSpeed(D, N) == FMul(D, N)

\* phi*pow(N/N_design, 0.2), the power taken to first order
ModifiedPhi(phi, N, N_design) ==
    FDiv(FMul(phi, FAdd(FMul(4, N_design), N)), FMul(5, N_design))

HeadCurve(phi_star) == FMul(4, FSub(PhiZero, phi_star))

EfficiencyCurve(phi_star, eta_design) ==
    StdMax(FSub(eta_design, FAbs(FSub(phi_star, m_snl_phi_design))), 0)

\* C_compressor::off_design_compressor
off_design_compressor(env_, mc, T_in, P_in, m_dot, N) ==
    LET With_in(in) ==
            LET U_tip == TipSpeed(mc.m_D_rotor, N)
                phi0 == FDiv(FMul(m_dot, FlowScale), FMul(FMul(in.dens, U_tip), mc.m_D_rotor * mc.m_D_rotor))
                surge == FLt(phi0, m_snl_phi_min)
                phi == IF surge THEN m_snl_phi_min ELSE phi0
                phi_star == ModifiedPhi(phi, N, mc.m_N_design)
                psi == HeadCurve(phi_star)
                eta == EfficiencyCurve(phi_star, mc.m_eta_design)
                dh_s == FDiv(FMul(psi, FMul(U_tip, U_tip)), HeadScale)
                dh == FDiv(FMul(dh_s, 100), eta)
                h_s_out == FAdd(in.enth, dh_s)
                h_out == FAdd(in.enth, dh)
                With_ps(ps) ==
                    LET With_out(out) ==
                            LET none == [error_code |-> 0, oracle |-> 0, T_out |-> NaN, P_out |-> NaN, surge |-> FALSE,
                                         wrote_P_out |-> FALSE, wrote_T_out |-> FALSE]
                            IN
                            IF in.err # 0 THEN [none EXCEPT !.error_code = 1, !.oracle = in.err]
                            ELSE IF FLe(psi, 0) THEN [none EXCEPT !.error_code = 1, !.surge = surge]
                            ELSE IF ps.err # 0 THEN [none EXCEPT !.error_code = 2, !.oracle = ps.err, !.surge = surge]
                            ELSE IF out.err # 0
                                 THEN [none EXCEPT !.error_code = 2, !.oracle = out.err, !.surge = surge,
                                                   !.P_out = ps.pres, !.wrote_P_out = TRUE]
                            ELSE [none EXCEPT !.surge = surge, !.P_out = ps.pres, !.T_out = out.temp,
                                              !.wrote_P_out = TRUE, !.wrote_T_out = TRUE]
                    IN  With_out(CO2_PH(env_, "mc.PH", ps.pres, h_out))
            IN  With_ps(CO2_HS(env_, "mc.HS", h_s_out, in.entr))
    IN  With_in(CO2_TP(env_, "mc.TP", T_in, P_in))

\* the turbine efficiency curve: peaks at a velocity ratio of 7 tenths and
\* is clamped to [0, 1]
TurbineEfficiency(nu10, eta_design) ==
    LET eta_0 == StdMin(StdMax(FSub(100, FMul(5, FAbs(FSub(nu10, 7)))), 0), 100)
    IN FDiv(FMul(eta_0, eta_design), 100)

\* C_turbine::off_design_turbine
off_design_turbine(env_, t, T_in, P_in, P_out, N) ==
    LET With_in(in) ==
            LET With_s_out(s_out) ==
                    LET C_s == FSqrt(FSub(in.enth, s_out.enth))
                        U_tip == TipSpeed(t.m_D_rotor, N)
                        eta == TurbineEfficiency(FDiv(FMul(U_tip, 10), C_s), t.m_eta_design)
                        h_out == FSub(in.enth, FDiv(FMul(eta, FSub(in.enth, s_out.enth)), 100))
                        With_out(out) ==
                            LET none == [error_code |-> 0, m_dot |-> NaN, T_out |-> NaN]
                            IN
                            IF in.err # 0 THEN [none EXCEPT !.error_code = in.err]
                            ELSE IF s_out.err # 0 THEN [none EXCEPT !.error_code = s_out.err]
                            ELSE IF out.err # 0 THEN [none EXCEPT !.error_code = out.err]
                            ELSE [none EXCEPT !.T_out = out.temp,
                                              !.m_dot = FDiv(FMul(FMul(C_s, t.m_A_nozzle), in.dens), NozzleScale)]
                    IN  With_out(CO2_PH(env_, "t.PH", P_out, h_out))
            IN  With_s_out(CO2_PS(env_, "t.PS", P_out, in.entr))
    IN  With_in(CO2_TP(env_, "t.TP", T_in, P_in))

\* C_recompressor::off_design_recompressor.  The iteration on the first
\* stage's flow coefficient is one step: it ends converged on the outlet
\* pressure P_out when the flow is within the recompressor's range, and
\* without convergence (error 1) otherwise; its oracle calls may fail.
off_design_recompressor(env_, rc, T_in, P_in, m_dot, P_out) ==
    LET With_in(in) ==
            LET With_s_out(s_out) ==
                    LET h_out == FAdd(in.enth, FDiv(FMul(FSub(s_out.enth, in.enth), 100), rc.m_eta_design))
                        With_out(out) ==
                            LET none == [error_code |-> 0, oracle |-> 0, T_out |-> NaN]
                            IN
                            IF in.err # 0 THEN [none EXCEPT !.error_code = in.err, !.oracle = in.err]
                            ELSE IF env_.failSite = "rc.stage" THEN [none EXCEPT !.error_code = env_.failCode,
                                                                                 !.oracle = env_.failCode]
                            ELSE IF ~(FLe(0, m_dot) /\ FLe(m_dot, rc.m_m_dot_max)) THEN [none EXCEPT !.error_code = 1]
                            ELSE IF out.err # 0 THEN [none EXCEPT !.error_code = out.err, !.oracle = out.err]
                            ELSE IF s_out.err # 0 THEN [none EXCEPT !.error_code = s_out.err, !.oracle = s_out.err]
                            ELSE [none EXCEPT !.T_out = out.temp]
                    IN  With_out(CO2_PH(env_, "rc.PH", P_out, h_out))
            IN  With_s_out(CO2_PS(env_, "rc.PS", P_out, in.entr))
    IN  With_in(CO2_TP(env_, "rc.TP", T_in, P_in))

\* C_HeatExchanger::hxr_pressure_drops for one stream
hxr_pressure_drop(hx, i, m_dot) ==
    FDiv(FMul(hx.m_DP_design[i], FMul(m_dot, m_dot)),
         FMul(hx.m_m_dot_design[i], hx.m_m_dot_design[i]))

\* C_HeatExchanger::hxr_conductance
hxr_conductance(hx, m_dot_1, m_dot_2) ==
    FDiv(FMul(hx.m_UA_design,
              FAdd(FMul(m_dot_1, hx.m_m_dot_design[2]), FMul(m_dot_2, hx.m_m_dot_design[1]))),
         FMul(2, FMul(hx.m_m_dot_design[1], hx.m_m_dot_design[2])))

\* ------------------------------------------------------------------------
\* off_design_core

max_iter_od == 100

\* off_design_core up to the entry of the mass-flow loop
OdSetup(par, e, d, st, l) ==
    LET st0 == [st EXCEPT !.temp[1] = par.m_T_mc_in, !.pres[1] = par.m_P_mc_in,
                          !.temp[6] = par.m_T_t_in]
        With_c(c) ==
            LET tip_speed == TipSpeed(d.m_mc.m_D_rotor, par.m_N_mc)
                partial_phi == FMul(FMul(c.dens, d.m_mc.m_D_rotor * d.m_mc.m_D_rotor), tip_speed)
                m_dot_mc_guess == FDiv(FMul(m_snl_phi_design, partial_phi), FlowScale)
                m_dot_mc_max == FDiv(FMul(FMul(m_snl_phi_max, partial_phi), 6), 5 * FlowScale)
                f == par.m_recomp_frac
            IN
            IF c.err # 0 THEN OracleAbort("od_start", c.err, st0, l)
            ELSE Step("md_iter", 0, st0,
                      [l EXCEPT !.m_dot_t = FDiv(FMul(m_dot_mc_guess, FracDen), FracDen - f),
                                !.m_dot_upper_bound = FDiv(FMul(m_dot_mc_max, FracDen), FracDen - f),
                                !.m_dot_lower_bound = 0, !.first_pass = TRUE, !.m_dot_iter = 0,
                                !.m_dot_rc = NaN, !.m_dot_mc = NaN,
                                !.last_m_dot_guess = -1000, !.last_m_dot_residual = NaN],
                      Obs("od_start", "enter"))
    IN  With_c(CO2_TP(e, "od1", st0.temp[1], st0.pres[1]))

\* the guess of the next mass-flow iteration
NextMassFlow(secant_guess, lower, upper, first_pass) ==
    IF first_pass THEN Bisect(lower, upper)
    ELSE IF FLt(secant_guess, lower) \/ FGt(secant_guess, upper) THEN Bisect(lower, upper)
    ELSE secant_guess

\* what the mass-flow loop does with the compressor's error code
CompressorErrorAction(comp_error_code) ==
    IF comp_error_code = 1 THEN "upper"
    ELSE IF comp_error_code = 2 THEN "lower"
    ELSE IF comp_error_code # 0 THEN "return"
    ELSE "go on"

\* one iteration of the mass-flow loop
MdotStep(par, e, d, st, l) ==
    LET f == par.m_recomp_frac
        m_dot_t == l.m_dot_t
        m_dot_rc == FDiv(FMul(m_dot_t, f), FracDen)
        m_dot_mc == FSub(m_dot_t, m_dot_rc)
        l1 == [l EXCEPT !.m_dot_rc = m_dot_rc, !.m_dot_mc = m_dot_mc]
        With_cmp(cmp) ==
            LET st1 == [st EXCEPT !.temp[2] = IF cmp.wrote_T_out THEN cmp.T_out ELSE @,
                                  !.pres[2] = IF cmp.wrote_P_out THEN cmp.P_out ELSE @]
                l2 == [l1 EXCEPT !.surge = cmp.surge]
                P3 == FSub(st1.pres[2], hxr_pressure_drop(d.m_LT, 1, m_dot_mc))
                P5 == FSub(P3, hxr_pressure_drop(d.m_HT, 1, m_dot_t))
                P6 == FSub(P5, hxr_pressure_drop(d.m_PHX, 1, m_dot_t))
                P9 == FAdd(st1.pres[1], hxr_pressure_drop(d.m_PC, 2, m_dot_mc))
                P8 == FAdd(P9, hxr_pressure_drop(d.m_LT, 2, m_dot_t))
                P7 == FAdd(P8, hxr_pressure_drop(d.m_HT, 2, m_dot_t))
                st2 == [st1 EXCEPT !.pres[3] = P3, !.pres[4] = P3, !.pres[10] = P3, !.pres[5] = P5,
                                   !.pres[6] = P6, !.pres[9] = P9, !.pres[8] = P8, !.pres[7] = P7]
                With_trb(trb) ==
                    LET st3 == IF trb.error_code = 0 THEN [st2 EXCEPT !.temp[7] = trb.T_out] ELSE st2
                        residual == FSub(m_dot_t, trb.m_dot)
                        secant_guess == SecantGuess(m_dot_t, residual, l.last_m_dot_guess, l.last_m_dot_residual)
                        converged == IF FGt(residual, 0) THEN RelBelowTol(residual, m_dot_t, par.m_tol)
                                     ELSE RelBelowTol(FNeg(residual), m_dot_t, par.m_tol)
                        lower == IF FGt(residual, 0) THEN l.m_dot_lower_bound ELSE m_dot_t
                        upper == IF FGt(residual, 0) THEN m_dot_t ELSE l.m_dot_upper_bound
                        after == AfterIteration(l.m_dot_iter, max_iter_od, "md_iter", "od_setup")
                        o1 == [Obs("mdot", "return") EXCEPT !.guess = m_dot_t, !.oracle_failure = cmp.oracle,
                                                            !.comp_error_code = cmp.error_code,
                                                            !.last_guess = l.last_m_dot_guess,
                                                            !.last_residual = l.last_m_dot_residual]
                        o2 == [o1 EXCEPT !.residual = residual, !.secant_guess = secant_guess]
                    IN
                    IF CompressorErrorAction(cmp.error_code) = "upper"
                    THEN Step(after, 0, st1,
                              [l2 EXCEPT !.m_dot_upper_bound = m_dot_t,
                                         !.m_dot_t = Bisect(l.m_dot_lower_bound, m_dot_t),
                                         !.m_dot_iter = l.m_dot_iter + 1],
                              [o1 EXCEPT !.outcome = "comp_upper"])
                    ELSE IF CompressorErrorAction(cmp.error_code) = "lower"
                    THEN Step(after, 0, st1,
                              [l2 EXCEPT !.m_dot_lower_bound = m_dot_t,
                                         !.m_dot_t = Bisect(m_dot_t, l.m_dot_upper_bound),
                                         !.m_dot_iter = l.m_dot_iter + 1],
                              [o1 EXCEPT !.outcome = "comp_lower"])
                    ELSE IF CompressorErrorAction(cmp.error_code) = "return"
                    THEN Step("done", cmp.error_code, st1, l2, o1)
                    ELSE IF trb.error_code # 0
                    THEN Step("done", trb.error_code, st2, l2, [o1 EXCEPT !.oracle_failure = trb.error_code])
                    ELSE IF converged
                    THEN Step("od_setup", 0, st3, l2, [o2 EXCEPT !.outcome = "converged"])
                    ELSE Step(after, 0, st3,
                              [l2 EXCEPT !.m_dot_lower_bound = lower, !.m_dot_upper_bound = upper,
                                         !.last_m_dot_residual = residual, !.last_m_dot_guess = m_dot_t,
                                         !.m_dot_t = NextMassFlow(secant_guess, lower, upper, l.first_pass),
                                         !.first_pass = FALSE, !.m_dot_iter = l.m_dot_iter + 1],
                              [o2 EXCEPT !.outcome = "advance"])
            IN  With_trb(off_design_turbine(e, d.m_t, st2.temp[6], P6, P7, par.m_N_t))
    IN  With_cmp(off_design_compressor(e, d.m_mc, st.temp[1], st.pres[1], m_dot_mc, par.m_N_mc))

RECURSIVE DefineStates(_, _, _)
\* CO2_TP for the nodes of a sequence, in order, until one fails
DefineStates(e, st, nodes) ==
    IF nodes = <<>> THEN [err |-> 0, st |-> st]
    ELSE LET i == Head(nodes)
             c == CO2_TP(e, "od_known", st.temp[i], st.pres[i])
         IN IF c.err # 0 THEN [err |-> c.err, st |-> st]
            ELSE DefineStates(e, [st EXCEPT !.enth[i] = c.enth, !.entr[i] = c.entr,
                                            !.dens[i] = c.dens], Tail(nodes))

\* off_design_core between the mass-flow loop and the T8 loop
OdKnownStates(par, e, d, st, l) ==
    LET With_ds(ds) ==
            LET st1 == ds.st
                UA_LT == hxr_conductance(d.m_LT, l.m_dot_mc, l.m_dot_t)
                UA_HT == hxr_conductance(d.m_HT, l.m_dot_t, l.m_dot_t)
                l1 == [l EXCEPT !.UA_LT = UA_LT, !.UA_HT = UA_HT, !.Q_dot_LT = NaN, !.Q_dot_HT = NaN,
                                !.T8_iter = 0]
            IN
            IF l.m_dot_iter >= max_iter_od THEN Step("done", 42, st, l, Obs("od_setup", "return"))
            ELSE IF ds.err # 0 THEN OracleAbort("od_setup", ds.err, st1, l)
            ELSE IF FLt(UA_HT, UAFloor)
                 THEN Step("od_T8_head", 0, [st1 EXCEPT !.temp[8] = st1.temp[7]],
                           [l1 EXCEPT !.T8_lower_bound = st1.temp[7], !.T8_upper_bound = st1.temp[7],
                                      !.UA_HT_calc = 0, !.last_HT_residual = 0,
                                      !.last_T8_guess = st1.temp[7]],
                           Obs("od_setup", "enter"))
                 ELSE Step("od_T8_head", 0, [st1 EXCEPT !.temp[8] = Bisect(st1.temp[2], st1.temp[7])],
                           [l1 EXCEPT !.T8_lower_bound = st1.temp[2], !.T8_upper_bound = st1.temp[7],
                                      !.UA_HT_calc = -1, !.last_HT_residual = UA_HT,
                                      !.last_T8_guess = st1.temp[7]],
                           Obs("od_setup", "enter"))
    IN  With_ds(DefineStates(e, st, <<1, 2, 6, 7>>))

\* the head of a T8 iteration of off_design_core
OdT8Head(e, st, l) ==
    LET c == CO2_TP(e, "s8", st.temp[8], st.pres[8]) IN
    IF c.err # 0 THEN OracleAbort("T8head", c.err, st, l)
    ELSE
    LET st1 == [st EXCEPT !.enth[8] = c.enth, !.entr[8] = c.entr, !.dens[8] = c.dens] IN
    IF FLt(l.UA_LT, UAFloor)
    THEN Step("od_T9_iter", 0, [st1 EXCEPT !.temp[9] = st1.temp[8]],
              [l EXCEPT !.T9_lower_bound = st1.temp[8], !.T9_upper_bound = st1.temp[8],
                        !.UA_LT_calc = 0, !.last_LT_residual = 0,
                        !.last_T9_guess = st1.temp[8], !.T9_iter = 0],
              Obs("T8head", "enter"))
    ELSE Step("od_T9_iter", 0, [st1 EXCEPT !.temp[9] = Bisect(st1.temp[2], st1.temp[8])],
              [l EXCEPT !.T9_lower_bound = st1.temp[2], !.T9_upper_bound = st1.temp[8],
                        !.UA_LT_calc = -1, !.last_LT_residual = l.UA_LT,
                        !.last_T9_guess = st1.temp[8], !.T9_iter = 0],
              Obs("T8head", "enter"))

\* states 9 and 10 of a T9 iteration of off_design_core
OdRecompressor(par, e, d, st, l) ==
    LET With_c9(c9) ==
            LET st9 == [st EXCEPT !.enth[9] = c9.enth, !.entr[9] = c9.entr, !.dens[9] = c9.dens]
                With_rc(rc) ==
                    LET st10 == [st9 EXCEPT !.temp[10] = rc.T_out]
                        With_c10(c10) ==
                            IF c9.err # 0 THEN [err |-> c9.err, oracle |-> c9.err, st |-> st]
                            ELSE IF ~HasRecompressor(par.m_recomp_frac)
                                 THEN [err |-> 0, oracle |-> 0, st |-> CopyState(st9, 9, 10)]
                            ELSE IF rc.error_code # 0 THEN [err |-> rc.error_code, oracle |-> rc.oracle, st |-> st9]
                            ELSE IF c10.err # 0 THEN [err |-> c10.err, oracle |-> c10.err, st |-> st10]
                            ELSE [err |-> 0, oracle |-> 0,
                                  st |-> [st10 EXCEPT !.enth[10] = c10.enth, !.entr[10] = c10.entr, !.dens[10] = c10.dens]]
                    IN  With_c10(CO2_TP(e, "s10", st10.temp[10], st10.pres[10]))
            IN  With_rc(off_design_recompressor(e, d.m_rc, st9.temp[9], st9.pres[9], l.m_dot_rc, st9.pres[10]))
    IN  With_c9(CO2_TP(e, "s9", st.temp[9], st.pres[9]))

\* what the T9 loop of off_design_core does with an exchanger error code
OdT9HxErrorAction(hx_error_code) ==
    IF hx_error_code > 0
    THEN (IF hx_error_code = 11 THEN "bisect" ELSE "return")
    ELSE "go on"

\* one iteration of the T9 loop of off_design_core
OdT9Step(par, e, d, st, l) ==
    LET With_rc(rc) ==
            LET st1 == rc.st
                Q_dot_LT == IF FLt(l.UA_LT, UAFloor) THEN 0
                            ELSE FMul(l.m_dot_t, FSub(st1.enth[8], st1.enth[9]))
                l1 == [l EXCEPT !.Q_dot_LT = Q_dot_LT]
                With_hx(hx) ==
                    LET l2 == [l1 EXCEPT !.UA_LT_calc = hx.UA, !.min_DT_LT = hx.min_DT]
                        o2 == [Obs("T9", "return") EXCEPT !.hx_called = TRUE, !.hx_error_code = hx.error_code,
                                                          !.hx_flow = l.m_dot_t, !.guess = st1.temp[9],
                                                          !.oracle_failure = hx.oracle,
                                                          !.last_guess = l.last_T9_guess,
                                                          !.last_residual = l.last_LT_residual]
                        residual == FSub(l.UA_LT, hx.UA)
                        secant_guess == SecantGuess(st1.temp[9], residual, l.last_T9_guess, l.last_LT_residual)
                        o3 == [o2 EXCEPT !.residual = residual, !.min_DT = hx.min_DT, !.secant_guess = secant_guess]
                        lower == IF FLt(residual, 0) THEN st1.temp[9] ELSE l.T9_lower_bound
                        upper == IF FLt(residual, 0) THEN l.T9_upper_bound ELSE st1.temp[9]
                        after == AfterIteration(l.T9_iter, max_iter_od, "od_T9_iter", "od_T8_body")
                    IN
                    IF rc.err # 0
                    THEN Step("done", rc.err, st1, l, [Obs("T9", "return") EXCEPT !.oracle_failure = rc.oracle])
                    ELSE IF OdT9HxErrorAction(hx.error_code) = "bisect"
                         THEN Step(after, 0,
                                   [st1 EXCEPT !.temp[9] = Bisect(st1.temp[9], l.T9_upper_bound)],
                                   [l2 EXCEPT !.T9_lower_bound = st1.temp[9], !.T9_iter = l.T9_iter + 1],
                                   [o2 EXCEPT !.outcome = "bisect11"])
                    ELSE IF OdT9HxErrorAction(hx.error_code) = "return"
                         THEN Step("done", hx.error_code, st1, l2, o2)
                    ELSE IF ConvergenceTest(residual, l.UA_LT, hx.min_DT, par.m_tol)
                         THEN Step("od_T8_body", 0, st1, l2, [o3 EXCEPT !.outcome = "converged"])
                    ELSE Step(after, 0,
                              [st1 EXCEPT !.temp[9] = NextGuess(secant_guess, lower, upper, TRUE)],
                              [l2 EXCEPT !.T9_lower_bound = lower, !.T9_upper_bound = upper,
                                         !.last_LT_residual = residual, !.last_T9_guess = st1.temp[9],
                                         !.T9_iter = l.T9_iter + 1],
                              [o3 EXCEPT !.outcome = "advance"])
            IN  With_hx(calculate_hxr_UA_1(e, "LT", par.m_N_sub_hxrs, Q_dot_LT, l.m_dot_mc, l.m_dot_t,
                                           st1.temp[2], st1.temp[8], st1.pres[2], st1.pres[3],
                                           st1.pres[8], st1.pres[9], 0, l.UA_LT_calc, NaN))
    IN  With_rc(OdRecompressor(par, e, d, st, l))

\* the rest of a T8 iteration of off_design_core, after its T9 loop
OdT8Step(par, e, st, l) ==
    LET h3 == FAdd(st.enth[2], FDiv(l.Q_dot_LT, l.m_dot_mc))
        With_c3(c3) ==
            LET st3 == IF c3.err # 0 THEN [st EXCEPT !.enth[3] = h3]
                       ELSE [st EXCEPT !.enth[3] = h3, !.temp[3] = c3.temp, !.entr[3] = c3.entr,
                                       !.dens[3] = c3.dens]
                With_mix(mix) ==
                    LET st4 == mix.st
                        Q_dot_HT == IF FLt(l.UA_HT, UAFloor) THEN 0
                                    ELSE FMul(l.m_dot_t, FSub(st4.enth[7], st4.enth[8]))
                        l1 == [l EXCEPT !.Q_dot_HT = Q_dot_HT]
                        With_hx(hx) ==
                            LET l2 == [l1 EXCEPT !.UA_HT_calc = hx.UA, !.min_DT_HT = hx.min_DT]
                                o2 == [Obs("T8", "return") EXCEPT !.hx_called = TRUE, !.hx_error_code = hx.error_code,
                                                                  !.hx_flow = l.m_dot_t, !.guess = st4.temp[8],
                                                                  !.oracle_failure = hx.oracle,
                                                                  !.last_guess = l.last_T8_guess,
                                                                  !.last_residual = l.last_HT_residual]
                                residual == FSub(l.UA_HT, hx.UA)
                                secant_guess == SecantGuess(st4.temp[8], residual, l.last_T8_guess, l.last_HT_residual)
                                o3 == [o2 EXCEPT !.residual = residual, !.min_DT = hx.min_DT, !.secant_guess = secant_guess]
                                lower == IF FLt(residual, 0) THEN st4.temp[8] ELSE l.T8_lower_bound
                                upper == IF FLt(residual, 0) THEN l.T8_upper_bound ELSE st4.temp[8]
                                after == AfterIteration(l.T8_iter, max_iter_od, "od_T8_head", "od_end")
                            IN
                            IF l.T9_iter >= max_iter_od THEN Step("done", 31, st, l, Obs("T8", "return"))
                            ELSE IF c3.err # 0 THEN OracleAbort("T8", c3.err, st3, l)
                            ELSE IF mix.err # 0 THEN OracleAbort("T8", mix.err, st4, l)
                            ELSE IF FGe(st4.temp[4], st4.temp[8])
                                 THEN Step(after, 0,
                                           [st4 EXCEPT !.temp[8] = Bisect(st4.temp[8], l.T8_upper_bound)],
                                           [l EXCEPT !.T8_lower_bound = st4.temp[8], !.T8_iter = l.T8_iter + 1],
                                           [Obs("T8", "T4geT8") EXCEPT !.guess = st4.temp[8]])
                            ELSE IF HxErrorAction(hx.error_code) = "bisect"
                                 THEN Step(after, 0,
                                           [st4 EXCEPT !.temp[8] = Bisect(st4.temp[8], l.T8_upper_bound)],
                                           [l2 EXCEPT !.T8_lower_bound = st4.temp[8], !.T8_iter = l.T8_iter + 1],
                                           [o2 EXCEPT !.outcome = "bisect11"])
                            ELSE IF HxErrorAction(hx.error_code) = "return"
                                 THEN Step("done", hx.error_code, st4, l2, o2)
                            ELSE IF ConvergenceTest(residual, l.UA_HT, hx.min_DT, par.m_tol)
                                 THEN Step("od_end", 0, st4, l2, [o3 EXCEPT !.outcome = "converged"])
                            ELSE Step(after, 0,
                                      [st4 EXCEPT !.temp[8] = NextGuess(secant_guess, lower, upper, FALSE)],
                                      [l2 EXCEPT !.T8_lower_bound = lower, !.T8_upper_bound = upper,
                                                 !.last_HT_residual = residual, !.last_T8_guess = st4.temp[8],
                                                 !.T8_iter = l.T8_iter + 1],
                                      [o3 EXCEPT !.outcome = "advance"])
                    IN  With_hx(calculate_hxr_UA_1(e, "HT", par.m_N_sub_hxrs, Q_dot_HT, l.m_dot_t, l.m_dot_t,
                                                   st4.temp[4], st4.temp[7], st4.pres[4], st4.pres[5],
                                                   st4.pres[7], st4.pres[8], 0, l.UA_HT_calc, NaN))
            IN  With_mix(MixingValve(par, e, st3))
    IN  With_c3(CO2_PH(e, "s3", st.pres[3], h3))

\* off_design_core after the T8 loop
OdEnd(par, e, st, l, pf) ==
    LET h5 == FAdd(st.enth[4], FDiv(l.Q_dot_HT, l.m_dot_t))
        With_c5(c5) ==
            LET st5 == [st EXCEPT !.enth[5] = h5, !.temp[5] = c5.temp, !.entr[5] = c5.entr,
                                  !.dens[5] = c5.dens]
                w_mc == FSub(st5.enth[1], st5.enth[2])
                w_t == FSub(st5.enth[6], st5.enth[7])
                w_rc == IF par.m_recomp_frac > 0 THEN FSub(st5.enth[9], st5.enth[10]) ELSE 0
                Q_dot_PHX == FMul(l.m_dot_t, FSub(st5.enth[6], st5.enth[5]))
                W_dot_net == FAdd(FAdd(FMul(w_mc, l.m_dot_mc), FMul(w_rc, l.m_dot_rc)), FMul(w_t, l.m_dot_t))
            IN
            IF l.T8_iter >= max_iter_od
            THEN [s |-> Step("done", 35, st, l, Obs("end", "return")), perf |-> pf]
            ELSE IF c5.err # 0
            THEN [s |-> OracleAbort("end", c5.err, [st EXCEPT !.enth[5] = h5], l), perf |-> pf]
            ELSE [s |-> Step("done", 0, st5, [l EXCEPT !.w_mc = w_mc, !.w_t = w_t, !.w_rc = w_rc],
                             Obs("end", "solved")),
                  perf |-> [pf EXCEPT !.ms_od_solved =
                                [set |-> TRUE, m_eta_thermal |-> FDiv(FMul(W_dot_net, 100), Q_dot_PHX),
                                 m_W_dot_net |-> W_dot_net, m_Q_dot |-> Q_dot_PHX,
                                 m_m_dot_mc |-> l.m_dot_mc, m_m_dot_rc |-> l.m_dot_rc,
                                 m_m_dot_t |-> l.m_dot_t, m_recomp_frac |-> par.m_recomp_frac,
                                 m_N_mc |-> par.m_N_mc, m_N_t |-> par.m_N_t, m_temp |-> st5.temp,
                                 m_pres |-> st5.pres, m_enth |-> st5.enth, m_entr |-> st5.entr,
                                 m_dens |-> st5.dens]]]
    IN  With_c5(CO2_PH(e, "s5", st.pres[5], h5))

\* ------------------------------------------------------------------------
\* The steps of off_design_core as actions

ApplyOd(r) ==
    /\ pc' = r.next
    /\ error_code' = r.err
    /\ m_od' = r.st
    /\ loc' = r.loc
    /\ obs' = r.obs

OdStart ==
    /\ pc = "od_start"
    /\ ApplyOd(OdSetup(ms_od_par, env, perf, m_od, loc))
    /\ UNCHANGED <<env, ms_des_par, ms_od_par, m_last, perf, opt, arg, ret>>

MdotIterate ==
    /\ pc = "md_iter"
    /\ ApplyOd(MdotStep(ms_od_par, env, perf, m_od, loc))
    /\ UNCHANGED <<env, ms_des_par, ms_od_par, m_last, perf, opt, arg, ret>>

OdDefineKnownStates ==
    /\ pc = "od_setup"
    /\ ApplyOd(OdKnownStates(ms_od_par, env, perf, m_od, loc))
    /\ UNCHANGED <<env, ms_des_par, ms_od_par, m_last, perf, opt, arg, ret>>

OdT8LoopHead ==
    /\ pc = "od_T8_head"
    /\ ApplyOd(OdT8Head(env, m_od, loc))
    /\ UNCHANGED <<env, ms_des_par, ms_od_par, m_last, perf, opt, arg, ret>>

OdT9Iterate ==
    /\ pc = "od_T9_iter"
    /\ ApplyOd(OdT9Step(ms_od_par, env, perf, m_od, loc))
    /\ UNCHANGED <<env, ms_des_par, ms_od_par, m_last, perf, opt, arg, ret>>

OdT8Body ==
    /\ pc = "od_T8_body"
    /\ ApplyOd(OdT8Step(ms_od_par, env, m_od, loc))
    /\ UNCHANGED <<env, ms_des_par, ms_od_par, m_last, perf, opt, arg, ret>>

OdFinish ==
    /\ pc = "od_end"
    /\ LET r == OdEnd(ms_od_par, env, m_od, loc, perf)
       IN ApplyOd(r.s) /\ perf' = r.perf
    /\ UNCHANGED <<env, ms_des_par, ms_od_par, m_last, opt, arg, ret>>

\* ------------------------------------------------------------------------
\* Scenarios of the solver: the inputs of one solve and the oracle's
\* failure, all chosen at the start

MaxSubHxrs == 2

Tol(n, d) == [num |-> n, den |-> d]

DesPar(W, f, UA_LT, UA_HT, tol, N, P_mc_out, dp, eta) ==
    [m_W_dot_net |-> W, m_T_mc_in |-> 40, m_T_t_in |-> 300, m_P_mc_in |-> 8,
     m_P_mc_out |-> P_mc_out, m_DP_LT |-> <<dp, dp>>, m_DP_HT |-> <<dp, dp>>,
     m_DP_PC |-> <<0, dp>>, m_DP_PHX |-> <<dp, 0>>, m_UA_LT |-> UA_LT, m_UA_HT |-> UA_HT,
     m_recomp_frac |-> f, m_eta_mc |-> eta, m_eta_rc |-> eta, m_eta_t |-> eta,
     m_N_sub_hxrs |-> N, m_tol |-> tol]

\* design inputs: zero, positive and negative net power, with and without
\* recompressor and recuperators, zero and loose tolerance
DesignInputs ==
    {p \in {DesPar(W, f, UL, UH, tol, N, 12, dp, 90) :
              W \in {0, 200, -200}, f \in {0, 1, 2}, UL \in {0, 8, 40, 4000},
              UH \in {0, 8, 40, 4000}, tol \in {Tol(0, 1), Tol(1, 10)},
              N \in 1..MaxSubHxrs, dp \in {0, 1}} :
        /\ p.m_tol.num # 0 \/ (p.m_N_sub_hxrs = 1 /\ p.m_DP_LT[1] = 0 /\ p.m_W_dot_net = 200)
        /\ p.m_W_dot_net = 200 \/ (p.m_N_sub_hxrs = 1 /\ p.m_DP_LT[1] = 0 /\ p.m_tol.num = 1)}
    \cup {DesPar(200, f, 40, 40, Tol(1, 10), 1, P, dp, eta) :
              f \in {0, 2}, P \in {12, 16}, dp \in {0, -10}, eta \in {90, -88}}

DesignFailSites ==
    {"mcpoly.TP", "mcpoly.PS", "mcpoly.stage", "tpoly.TP", "tpoly.stage", "mc.TP", "mc.PS",
     "mc.PH", "t.TP", "t.PS", "t.PH", "rc0poly.TP", "rc0.TP", "rc0.PS", "rc0.PH", "s8",
     "rcpoly.stage", "rc.TP", "rc.PS", "rc.PH", "s9", "LT.TPc", "LT.TPh", "LT.PHh", "LT.PHc",
     "s3", "s4", "HT.TPc", "HT.TPh", "HT.PHh", "HT.PHc", "s5"}

DesignFailInputs ==
    {DesPar(200, f, 40, 40, Tol(1, 10), 1, 12, 0, eta) : f \in {0, 2}, eta \in {90, -88}}

Hx(UA, dp_cold, dp_hot, m_cold, m_hot) ==
    [NoHx EXCEPT !.m_UA_design = UA, !.m_DP_design = <<dp_cold, dp_hot>>,
                 !.m_m_dot_design = <<m_cold, m_hot>>]

\* the records a finished design leaves for off-design: component sizes
\* and the design points of the four heat exchangers
OdDesign(A_nozzle, UA_LT, UA_HT, dp, f) ==
    [perf0 EXCEPT
        !.m_mc = [NoComp EXCEPT !.m_D_rotor = 1, !.m_N_design = 10, !.m_eta_design = 90],
        !.m_t = [NoComp EXCEPT !.m_D_rotor = 1, !.m_N_design = 7, !.m_eta_design = 90,
                               !.m_A_nozzle = A_nozzle],
        !.m_rc = [NoComp EXCEPT !.m_eta_design = 90, !.m_m_dot_max = 40],
        !.m_LT = Hx(UA_LT, dp, dp, (60 * (FracDen - f)) \div FracDen, 60),
        !.m_HT = Hx(UA_HT, dp, dp, 60, 60),
        !.m_PHX = Hx(NaN, dp, 0, 60, 0),
        !.m_PC = Hx(NaN, 0, dp, 0, (60 * (FracDen - f)) \div FracDen)]

OdPar(f, N_mc, N_sub, tol) ==
    [m_T_mc_in |-> 40, m_P_mc_in |-> 8, m_T_t_in |-> 300, m_recomp_frac |-> f,
     m_N_mc |-> N_mc, m_N_t |-> 7, m_N_sub_hxrs |-> N_sub, m_tol |-> tol]

OdFailSites ==
    {"od1", "mc.TP", "mc.HS", "mc.PH", "t.TP", "t.PS", "t.PH", "od_known", "s8", "s9", "rc.TP",
     "rc.stage", "rc.PH", "rc.PS", "s10", "LT.TPc", "LT.TPh", "LT.PHh", "LT.PHc", "s3", "s4",
     "HT.TPc", "HT.TPh", "HT.PHh", "HT.PHc", "s5"}

NoDesPar == DesPar(200, 0, 40, 40, Tol(1, 10), 1, 12, 0, 90)
NoOdPar == OdPar(0, 10, 1, Tol(1, 10))
NoOpt == [caller |-> "none"]
NoArg == [call |-> "none"]

InitCommon ==
    /\ error_code = 0
    /\ m_last = UnsetStates
    /\ m_od = UnsetStates
    /\ loc = loc0
    /\ obs = obs0
    /\ ret = NoArg

InitSolve == InitCommon /\ opt = NoOpt /\ arg = NoArg

InitDesign ==
    /\ pc = "design_start"
    /\ perf = perf0
    /\ ms_od_par = NoOdPar
    /\ \/ ms_des_par \in DesignInputs /\ env = NoFail
       \/ /\ ms_des_par \in DesignFailInputs
          /\ env \in [failSite : DesignFailSites, failCode : OracleErrCodes, hotSite : {"none"}]
               \cup {[NoFail EXCEPT !.hotSite = "HT.PHc"]}

InitOd ==
    /\ pc = "od_start"
    /\ ms_des_par = NoDesPar
    /\ \/ /\ env = NoFail
          /\ \E f \in {0, 2}, A \in {20, 30, 40}, UL \in {0, 80, 40000}, UH \in {0, 80, 40000},
                dp \in {0, 1}, N_mc \in {8, 10, 60}, N \in 1..MaxSubHxrs,
                tol \in {Tol(0, 1), Tol(1, 10), Tol(1, 100)} :
               /\ ms_od_par = OdPar(f, N_mc, N, tol)
               /\ perf = OdDesign(A, UL, UH, dp, f)
       \/ /\ env \in [failSite : OdFailSites, failCode : OracleErrCodes, hotSite : {"none"}]
                      \cup {[NoFail EXCEPT !.hotSite = "HT.PHc"]}
          /\ \E f \in {0, 2} :
               /\ ms_od_par = OdPar(f, 10, 1, Tol(1, 10))
               /\ perf = OdDesign(30, 80, 80, 0, f)

Init == InitSolve /\ (InitDesign \/ InitOd)

Next ==
    \/ DesignStart
    \/ T8LoopHead
    \/ T9Iterate
    \/ T8Body
    \/ DesignFinish
    \/ OdStart
    \/ MdotIterate
    \/ OdDefineKnownStates
    \/ OdT8LoopHead
    \/ OdT9Iterate
    \/ OdT8Body
    \/ OdFinish

Spec == Init /\ [][Next]_vars

\* ------------------------------------------------------------------------
\* calculate_hxr_UA_1 called on its own: the arguments are chosen at the
\* start, the call is one step

HxrArgs ==
    [call : {"calculate_hxr_UA_1"}, N_hxrs : 1..MaxSubHxrs, Q_dot : {-5, 0, 1, 2, 500, 3000},
     m_dot_c : {10}, m_dot_h : {5, 10}, T_c_in : {50, 100}, T_h_in : {40, 50, 100, 300},
     P_c_in : {12}, P_c_out : {11, 12, 13}, P_h_in : {8}, P_h_out : {7, 8, 9},
     error_code : {0}, UA : {-1, 33}, min_DT : {NaN}]

HxrFailArgs == {a \in HxrArgs : /\ a.Q_dot = 500 /\ a.T_c_in = 50 /\ a.T_h_in = 300
                                /\ a.P_c_out = 12 /\ a.P_h_out = 8 /\ a.UA = -1}

HxrFailSites == {"hx.TPc", "hx.TPh", "hx.PHh", "hx.PHc"}

InitHxr ==
    /\ InitCommon
    /\ pc = "hxr_call"
    /\ ms_des_par = NoDesPar
    /\ ms_od_par = NoOdPar
    /\ perf = perf0
    /\ opt = NoOpt
    /\ \/ arg \in HxrArgs /\ env = NoFail
       \/ /\ arg \in HxrFailArgs
          /\ env \in [failSite : HxrFailSites, failCode : OracleErrCodes, hotSite : {"none"}]
               \cup {[NoFail EXCEPT !.hotSite = "hx.PHc"]}

HxrCall ==
    /\ pc = "hxr_call"
    /\ LET r == calculate_hxr_UA_1(env, "hx", arg.N_hxrs, arg.Q_dot, arg.m_dot_c, arg.m_dot_h,
                                   arg.T_c_in, arg.T_h_in, arg.P_c_in, arg.P_c_out, arg.P_h_in,
                                   arg.P_h_out, arg.error_code, arg.UA, arg.min_DT)
       IN ret' = [call |-> arg.call, error_code |-> r.error_code, UA |-> r.UA,
                  min_DT |-> r.min_DT, calls |-> r.calls, oracle |-> r.oracle]
    /\ pc' = "done"
    /\ UNCHANGED <<error_code, env, ms_des_par, ms_od_par, m_last, m_od, loc, perf, opt, arg, obs>>

NextHxr == HxrCall

SpecHxr == InitHxr /\ [][NextHxr]_vars

\* ------------------------------------------------------------------------
\* design_point_eta: the objective the optimizer evaluates.  x holds the
\* free variables in the order outlet pressure, pressure ratio,
\* recompression fraction, LT conductance fraction; a fixed one is left out
\* of x and taken from its guess.  Pressure ratios are in tenths, fractions
\* are numerators over FracDen, pressures are whole MPa (so that the
\* 100 kPa floor on the inlet pressure is P <= 0).

PRScale == 10
PRMax == 500
PInFloor == 0

OptPar(fixed_P, fixed_PR, fixed_rf, fixed_LT) ==
    [m_fixed_P_mc_out |-> fixed_P, m_P_mc_out_guess |-> 12, m_P_high_limit |-> 20,
     m_fixed_PR_mc |-> fixed_PR, m_PR_mc_guess |-> 15,
     m_fixed_recomp_frac |-> fixed_rf, m_recomp_frac_guess |-> 2,
     m_fixed_LT_frac |-> fixed_LT, m_LT_frac_guess |-> 2,
     m_UA_rec_total |-> 80]

\* design_point_eta up to its call of design_core: rejected tells that it
\* returned 0 before the call; ms_des_par holds the members written so far
EtaResult(rejected, par) == [rejected |-> rejected, ms_des_par |-> par]

design_point_eta_inputs(op, par, x) ==
    LET i1 == IF op.m_fixed_P_mc_out THEN 0 ELSE 1
        i2 == IF op.m_fixed_PR_mc THEN i1 ELSE i1 + 1
        i3 == IF op.m_fixed_recomp_frac THEN i2 ELSE i2 + 1
        i4 == IF op.m_fixed_LT_frac THEN i3 ELSE i3 + 1
        P_mc_out == IF op.m_fixed_P_mc_out THEN op.m_P_mc_out_guess ELSE x[i1]
        PR_mc_local == IF op.m_fixed_PR_mc THEN op.m_PR_mc_guess ELSE x[i2]
        P_mc_in == FDiv(FMul(P_mc_out, PRScale), PR_mc_local)
        recomp_frac == IF op.m_fixed_recomp_frac THEN op.m_recomp_frac_guess ELSE x[i3]
        LT_frac_local == IF op.m_fixed_LT_frac THEN op.m_LT_frac_guess ELSE x[i4]
        par1 == [par EXCEPT !.m_P_mc_out = P_mc_out]
        par2 == [par1 EXCEPT !.m_P_mc_in = P_mc_in]
        par3 == [par2 EXCEPT !.m_recomp_frac = recomp_frac]
    IN
    IF ~op.m_fixed_P_mc_out /\ FGt(P_mc_out, op.m_P_high_limit) THEN EtaResult(TRUE, par1)
    ELSE IF ~op.m_fixed_PR_mc /\ FGt(PR_mc_local, PRMax) THEN EtaResult(TRUE, par1)
    ELSE IF FGe(P_mc_in, P_mc_out) THEN EtaResult(TRUE, par1)
    ELSE IF FLe(P_mc_in, PInFloor) THEN EtaResult(TRUE, par1)
    ELSE IF ~op.m_fixed_recomp_frac /\ FLt(recomp_frac, 0) THEN EtaResult(TRUE, par3)
    ELSE IF ~op.m_fixed_LT_frac /\ (FGt(LT_frac_local, FracDen) \/ FLt(LT_frac_local, 0))
         THEN EtaResult(TRUE, par3)
    ELSE EtaResult(FALSE,
                   [par3 EXCEPT !.m_UA_LT = FDiv(FMul(op.m_UA_rec_total, LT_frac_local), FracDen),
                                !.m_UA_HT = FDiv(FMul(op.m_UA_rec_total, FracDen - LT_frac_local),
                                                 FracDen)])

\* design_point_eta from its entry to its return of 0 or its call of
\* design_core
DesignPointEtaCall ==
    /\ pc = "eta_call"
    /\ LET r == design_point_eta_inputs(opt.ms_opt_des_par, ms_des_par, arg.x)
       IN /\ ms_des_par' = r.ms_des_par
          /\ IF r.rejected
             THEN /\ pc' = "eta_done"
                  /\ ret' = [call |-> "design_point_eta", value |-> 0]
                  /\ opt' = opt
             ELSE /\ pc' = "design_start"
                  /\ ret' = ret
                  /\ opt' = [opt EXCEPT !.design_core_calls = @ + 1]
    /\ UNCHANGED <<error_code, env, ms_od_par, m_last, m_od, loc, perf, arg, obs>>

\* design_point_eta after design_core has returned
DesignPointEtaReturn ==
    /\ pc = "done"
    /\ opt.caller = "design_point_eta"
    /\ LET eta_thermal == IF error_code = 0 THEN perf.m_eta_thermal_last ELSE 0
           better == error_code = 0 /\ FGt(perf.m_eta_thermal_last, opt.m_eta_thermal_opt)
       IN /\ ret' = [call |-> "design_point_eta", value |-> eta_thermal]
          /\ opt' = IF better
                    THEN [opt EXCEPT !.ms_des_par_optimal = ms_des_par,
                                     !.m_eta_thermal_opt = perf.m_eta_thermal_last]
                    ELSE opt
    /\ pc' = "eta_done"
    /\ UNCHANGED <<error_code, env, ms_des_par, ms_od_par, m_last, m_od, loc, perf, arg, obs>>

\* the free-variable vectors tried: each free variable takes values inside
\* and outside its range
EtaVectors(op) ==
    LET Ps == IF op.m_fixed_P_mc_out THEN {<<>>} ELSE {<<P>> : P \in {12, 16, 60}}
        PRs == IF op.m_fixed_PR_mc THEN {<<>>} ELSE {<<PR>> : PR \in {5, 10, 15, 20, 400, 510}}
        rfs == IF op.m_fixed_recomp_frac THEN {<<>>} ELSE {<<f>> : f \in {-1, 0, 2, 4, 5}}
        LTs == IF op.m_fixed_LT_frac THEN {<<>>} ELSE {<<f>> : f \in {-1, 0, 2, 4, 5}}
    IN {a \o b \o c \o d : a \in Ps, b \in PRs, c \in rfs, d \in LTs}

InitEta ==
    /\ InitCommon
    /\ pc = "eta_call"
    /\ env = NoFail
    /\ ms_des_par = NoDesPar
    /\ ms_od_par = NoOdPar
    /\ perf = perf0
    /\ \E fixed_P \in BOOLEAN, fixed_PR \in BOOLEAN, fixed_rf \in BOOLEAN, fixed_LT \in BOOLEAN :
          /\ opt = [caller |-> "design_point_eta",
                    ms_opt_des_par |-> OptPar(fixed_P, fixed_PR, fixed_rf, fixed_LT),
                    ms_des_par_optimal |-> NoDesPar, m_eta_thermal_opt |-> 0,
                    design_core_calls |-> 0]
          /\ \E x \in EtaVectors(opt.ms_opt_des_par) :
                arg = [call |-> "design_point_eta", x |-> x]

NextEta ==
    \/ DesignPointEtaCall
    \/ DesignStart
    \/ T8LoopHead
    \/ T9Iterate
    \/ T8Body
    \/ DesignFinish
    \/ DesignPointEtaReturn

SpecEta == InitEta /\ [][NextEta]_vars

\* ------------------------------------------------------------------------
\* Component sizing and finalize_design.  The sizing formulas are the
\* inverses of the off-design component models, in the same units.

CO2_TD(env_, site, T, D) ==
    IF OracleFails(env_, site, T, D) THEN BadState(env_)
    ELSE [err |-> 0, temp |-> T, pres |-> (D * T) \div DK, enth |-> T,
          entr |-> (SK * DK) \div D, dens |-> D]

Sized(e, comp) == [error_code |-> e, comp |-> comp]

\* C_compressor::compressor_sizing: the component's ms_des_solved is
\* written only when both oracle calls succeed
compressor_sizing(env_, mc, st, m_dot) ==
    LET With_ps(ps) ==
            LET td == CO2_TD(env_, "mc_sizing.TD", st.temp[2], st.dens[2])
                psi_design == HeadCurve(m_snl_phi_design)
                w_i == FSub(ps.enth, st.enth[1])
                U_tip == FSqrt(FDiv(FMul(HeadScale, w_i), psi_design))
                D_rotor == FSqrt(FDiv(FMul(m_dot, FlowScale),
                                      FMul(FMul(m_snl_phi_design, st.dens[1]), U_tip)))
            IN
            IF td.err # 0 THEN Sized(td.err, mc)
            ELSE IF ps.err # 0 THEN Sized(ps.err, mc)
            ELSE Sized(0, [mc EXCEPT !.m_D_rotor = D_rotor, !.m_N_design = FDiv(U_tip, D_rotor),
                                     !.m_eta_design = FDiv(FMul(w_i, 100),
                                                           FSub(st.enth[2], st.enth[1]))])
    IN  With_ps(CO2_PS(env_, "mc_sizing.PS", st.pres[2], st.entr[1]))

\* C_recompressor::recompressor_sizing.  Its iteration on the pressure
\* between the two stages is one step: it fails with the oracle's code when
\* a property call inside it fails and with 1 when it runs out of
\* iterations, as the scenario says.
recompressor_sizing(env_, rc, st, m_dot) ==
    LET With_ps(ps) ==
            LET td == CO2_TD(env_, "rc_sizing.TD", st.temp[10], st.dens[10])
                w_i == FSub(ps.enth, st.enth[9])
            IN
            IF td.err # 0 THEN Sized(td.err, rc)
            ELSE IF ps.err # 0 THEN Sized(ps.err, rc)
            ELSE IF env_.failSite = "rc_sizing.stage" THEN Sized(env_.failCode, rc)
            ELSE IF env_.failSite = "rc_sizing.iter" THEN Sized(1, rc)
            ELSE Sized(0, [rc EXCEPT !.m_eta_design = FDiv(FMul(w_i, 100),
                                                           FSub(st.enth[10], st.enth[9])),
                                     !.m_m_dot_max = FDiv(FMul(m_dot, m_snl_phi_max),
                                                          m_snl_phi_design)])
    IN  With_ps(CO2_PS(env_, "rc_sizing.PS", st.pres[10], st.entr[9]))

\* C_turbine::turbine_sizing.  A shaft speed N_design <= 0 asks for the
\* compressor's speed; the speed is copied and the same test then gives
\* error 7.
turbine_sizing(env_, t, st, m_dot, N_design, N_comp_design_if_linked) ==
    LET With_ps(ps) ==
            LET td == CO2_TD(env_, "t_sizing.TD", st.temp[6], st.dens[6])
                w_i == FSub(st.enth[6], ps.enth)
                C_s == FSqrt(w_i)
                U_tip == FDiv(FMul(7, C_s), 10)
                t1 == [t EXCEPT !.m_N_design = N_design]
            IN
            IF FLe(N_design, 0) THEN Sized(7, [t EXCEPT !.m_N_design = N_comp_design_if_linked])
            ELSE IF td.err # 0 THEN Sized(td.err, t1)
            ELSE IF ps.err # 0 THEN Sized(ps.err, t1)
            ELSE Sized(0, [t1 EXCEPT !.m_D_rotor = FDiv(U_tip, N_design),
                                     !.m_A_nozzle = FDiv(FMul(m_dot, NozzleScale),
                                                         FMul(C_s, st.dens[6])),
                                     !.m_eta_design = FDiv(FMul(FSub(st.enth[6], st.enth[7]), 100),
                                                           w_i)])
    IN  With_ps(CO2_PS(env_, "t_sizing.PS", st.pres[7], st.entr[6]))

\* the recompressor is sized when the recompression fraction is above 0.01
SizesRecompressor(par) == FGt(par.m_recomp_frac, 0)

\* finalize_design: sizes the components from the member state arrays and
\* mass flows, whatever solve wrote them last, and copies the design into
\* ms_des_solved
finalize_design(env_, par, st, pf) ==
    LET With_mc(mc) ==
            LET With_rc(rc) ==
                    LET With_t(t) ==
                            LET pf_mc == [pf EXCEPT !.m_mc = mc.comp]
                                pf_rc == [pf_mc EXCEPT !.m_rc = rc.comp]
                                pf_t == [pf_rc EXCEPT !.m_t = t.comp,
                                                      !.ms_des_solved.m_is_rc = SizesRecompressor(par)]
                            IN
                            IF mc.error_code # 0 THEN [error_code |-> mc.error_code, perf |-> pf_mc]
                            ELSE IF rc.error_code # 0 THEN [error_code |-> rc.error_code, perf |-> pf_rc]
                            ELSE IF t.error_code # 0 THEN [error_code |-> t.error_code, perf |-> pf_t]
                            ELSE [error_code |-> 0,
                                  perf |-> [pf_t EXCEPT !.ms_des_solved =
                                              [set |-> TRUE, m_is_rc |-> SizesRecompressor(par),
                                               ms_mc_des_solved |-> mc.comp, ms_rc_des_solved |-> rc.comp,
                                               ms_t_des_solved |-> t.comp,
                                               m_states |-> st,
                                               m_eta_thermal |-> pf.m_eta_thermal_last,
                                               m_W_dot_net |-> pf.m_W_dot_net_last,
                                               m_recomp_frac |-> FDiv(FMul(pf.m_m_dot_rc, FracDen),
                                                                      pf.m_m_dot_t),
                                               m_UA_LT |-> par.m_UA_LT, m_UA_HT |-> par.m_UA_HT]]]
                    IN  With_t(turbine_sizing(env_, pf.m_t, st, pf.m_m_dot_t, par.m_N_turbine,
                                              mc.comp.m_N_design))
            IN  With_rc(IF SizesRecompressor(par) /\ mc.error_code = 0
                        THEN recompressor_sizing(env_, pf.m_rc, st, pf.m_m_dot_rc)
                        ELSE Sized(0, pf.m_rc))
    IN  With_mc(compressor_sizing(env_, pf.m_mc, st, pf.m_m_dot_mc))

\* ------------------------------------------------------------------------
\* opt_design and opt_design_core.  The optimizer is a library: it calls
\* the objective at the starting vector and then at vectors of its choice
\* inside the bounds, at most MaxEvals times in all, and the same
\* optimizer object is used for MaxRuns runs.

MaxEvals == 2
MaxRuns == 2

OptDesPar(W, N_turbine, fixed_P, fixed_PR, fixed_rf, fixed_LT) ==
    [OptPar(fixed_P, fixed_PR, fixed_rf, fixed_LT) EXCEPT !.m_UA_rec_total = 16,
                                                        !.m_recomp_frac_guess = 1] @@
    [m_W_dot_net |-> W, m_T_mc_in |-> 40, m_T_t_in |-> 300, m_DP_LT |-> <<0, 0>>,
     m_DP_HT |-> <<0, 0>>, m_DP_PC |-> <<0, 0>>, m_DP_PHX |-> <<0, 0>>,
     m_eta_mc |-> 90, m_eta_rc |-> 90, m_eta_t |-> 90, m_N_sub_hxrs |-> 1,
     m_tol |-> Tol(1, 10), m_N_turbine |-> N_turbine]

\* the members of ms_des_par that opt_design_core copies from ms_opt_des_par
MapOptDesPar(op, par) ==
    [m_W_dot_net |-> op.m_W_dot_net, m_T_mc_in |-> op.m_T_mc_in, m_T_t_in |-> op.m_T_t_in,
     m_DP_LT |-> op.m_DP_LT, m_DP_HT |-> op.m_DP_HT, m_DP_PC |-> op.m_DP_PC,
     m_DP_PHX |-> op.m_DP_PHX, m_eta_mc |-> op.m_eta_mc, m_eta_rc |-> op.m_eta_rc,
     m_eta_t |-> op.m_eta_t, m_N_sub_hxrs |-> op.m_N_sub_hxrs,
     m_P_high_limit |-> op.m_P_high_limit, m_tol |-> op.m_tol, m_N_turbine |-> op.m_N_turbine,
     m_P_mc_in |-> par.m_P_mc_in, m_P_mc_out |-> par.m_P_mc_out,
     m_recomp_frac |-> par.m_recomp_frac, m_UA_LT |-> par.m_UA_LT, m_UA_HT |-> par.m_UA_HT]

\* the number of free variables
FreeIndex(op) ==
    (IF op.m_fixed_P_mc_out THEN 0 ELSE 1) + (IF op.m_fixed_PR_mc THEN 0 ELSE 1)
    + (IF op.m_fixed_recomp_frac THEN 0 ELSE 1) + (IF op.m_fixed_LT_frac THEN 0 ELSE 1)

\* the starting vector: the guesses of the free variables
GuessVector(op) ==
    (IF op.m_fixed_P_mc_out THEN <<>> ELSE <<op.m_P_mc_out_guess>>)
    \o (IF op.m_fixed_PR_mc THEN <<>> ELSE <<op.m_PR_mc_guess>>)
    \o (IF op.m_fixed_recomp_frac THEN <<>> ELSE <<op.m_recomp_frac_guess>>)
    \o (IF op.m_fixed_LT_frac THEN <<>> ELSE <<op.m_LT_frac_guess>>)

\* vectors inside the bounds lb..ub that opt_design_core gives the optimizer
BoundedVectors(op) ==
    LET Ps == IF op.m_fixed_P_mc_out THEN {<<>>} ELSE {<<P>> : P \in {12, 16}}
        PRs == IF op.m_fixed_PR_mc THEN {<<>>} ELSE {<<PR>> : PR \in {5, 20}}
        rfs == IF op.m_fixed_recomp_frac THEN {<<>>} ELSE {<<f>> : f \in {0, 1}}
        LTs == IF op.m_fixed_LT_frac THEN {<<>>} ELSE {<<f>> : f \in {1, 3}}
    IN {a \o b \o c \o d : a \in Ps, b \in PRs, c \in rfs, d \in LTs}

\* the else branch of opt_design_core: ms_des_par from the guesses
GuessDesPar(op, par) ==
    [par EXCEPT !.m_P_mc_out = op.m_P_mc_out_guess,
                !.m_P_mc_in = FDiv(FMul(op.m_P_mc_out_guess, PRScale), op.m_PR_mc_guess),
                !.m_recomp_frac = op.m_recomp_frac_guess,
                !.m_UA_LT = FDiv(FMul(op.m_UA_rec_total, op.m_LT_frac_guess), FracDen),
                !.m_UA_HT = FDiv(FMul(op.m_UA_rec_total, FracDen - op.m_LT_frac_guess), FracDen)]

\* the inputs of opt_design tried, each with the oracle's scenario for that
\* run: all variables fixed, the recompression fraction free, the
\* pressure ratio and the LT fraction free; positive and negative net
\* power; linked and given turbine shaft speed
OptScenarios ==
    {[op |-> OptDesPar(W, 7, c[1], c[2], c[3], c[4]), env |-> NoFail] :
        W \in {200, -200},
        c \in {<<TRUE, TRUE, TRUE, TRUE>>, <<TRUE, TRUE, FALSE, TRUE>>,
               <<TRUE, FALSE, TRUE, FALSE>>}}
    \cup {[op |-> OptDesPar(200, N, TRUE, TRUE, TRUE, TRUE), env |-> NoFail] : N \in {0, -1}}
    \cup {[op |-> OptDesPar(200, 7, TRUE, TRUE, rf, TRUE),
           env |-> [NoFail EXCEPT !.failSite = "mc.TP"]] : rf \in BOOLEAN}
    \cup {[op |-> OptDesPar(200, 7, TRUE, TRUE, TRUE, TRUE),
           env |-> [NoFail EXCEPT !.failSite = site]] :
             site \in {"mc_sizing.TD", "LT.TPc", "t_sizing.PS"}}

\* opt_design's entry and opt_design_core up to its first call: of the
\* optimizer when a variable is free, of design_core otherwise
OptDesignStart ==
    /\ pc \in {"opt_call", "opt_done"}
    /\ opt.run < MaxRuns
    /\ \E sc \in OptScenarios :
          LET op == sc.op
              par == MapOptDesPar(op, ms_des_par)
              opt1 == [opt EXCEPT !.run = @ + 1, !.ms_opt_des_par = op, !.evals = <<>>]
          IN /\ env' = sc.env
             /\ IF FreeIndex(op) > 0
                THEN /\ ms_des_par' = par
                     /\ opt' = [opt1 EXCEPT !.m_eta_thermal_opt = 0, !.caller = "optimizer"]
                     /\ pc' = "opt_eval"
                ELSE /\ ms_des_par' = GuessDesPar(op, par)
                     /\ opt' = [opt1 EXCEPT !.caller = "opt_design_core"]
                     /\ pc' = "design_start"
    /\ UNCHANGED <<error_code, ms_od_par, m_last, m_od, loc, perf, arg, ret, obs>>

\* the optimizer calls the objective through nlopt_callback_opt_des_1
OptimizerEvaluate ==
    /\ pc = "opt_eval"
    /\ Len(opt.evals) < MaxEvals
    /\ \E x \in IF opt.evals = <<>> THEN {GuessVector(opt.ms_opt_des_par)}
                ELSE BoundedVectors(opt.ms_opt_des_par) :
          arg' = [call |-> "design_point_eta", x |-> x]
    /\ opt' = [opt EXCEPT !.caller = "design_point_eta", !.calls_before = opt.design_core_calls]
    /\ pc' = "eta_call"
    /\ UNCHANGED <<error_code, env, ms_des_par, ms_od_par, m_last, m_od, loc, perf, ret, obs>>

\* the objective has returned to the optimizer
OptimizerResume ==
    /\ pc = "eta_done"
    /\ opt.caller = "design_point_eta"
    /\ opt' = [opt EXCEPT !.caller = "optimizer",
                          !.evals = Append(@, [ms_des_par |-> ms_des_par, value |-> ret.value,
                                               solved |-> opt.design_core_calls > opt.calls_before
                                                          /\ error_code = 0])]
    /\ pc' = "opt_eval"
    /\ UNCHANGED <<error_code, env, ms_des_par, ms_od_par, m_last, m_od, loc, perf, arg, ret, obs>>

\* the optimizer returns; opt_design_core solves ms_des_par_optimal again
OptimizerReturn ==
    /\ pc = "opt_eval"
    /\ opt.evals # <<>>
    /\ ms_des_par' = opt.ms_des_par_optimal
    /\ opt' = [opt EXCEPT !.caller = "opt_design_core"]
    /\ pc' = "design_start"
    /\ UNCHANGED <<error_code, env, ms_od_par, m_last, m_od, loc, perf, arg, ret, obs>>

\* opt_design_core's reference parameter when it returns: no statement of
\* opt_design_core assigns it
opt_design_core_error_code(error_code_in, no_opt_error_code) == error_code_in

\* the final design_core call has returned: the rest of opt_design_core and
\* of opt_design
OptDesignFinish ==
    /\ pc = "done"
    /\ opt.caller = "opt_design_core"
    /\ LET opt_design_error_code == opt_design_core_error_code(0, error_code)
           With_fin(fin) ==
               IF opt_design_error_code # 0
               THEN /\ error_code' = opt_design_error_code
                    /\ perf' = perf
                    /\ ret' = [call |-> "opt_design", error_code |-> opt_design_error_code,
                               no_opt_error_code |-> error_code, finalized |-> FALSE]
               ELSE /\ error_code' = fin.error_code
                    /\ perf' = fin.perf
                    /\ ret' = [call |-> "opt_design", error_code |-> fin.error_code,
                               no_opt_error_code |-> error_code, finalized |-> TRUE]
       IN With_fin(finalize_design(env, ms_des_par, m_last, perf))
    /\ opt' = IF FreeIndex(opt.ms_opt_des_par) > 0 THEN [opt EXCEPT !.caller = "opt_design"]
              ELSE [opt EXCEPT !.caller = "opt_design", !.ms_des_par_optimal = ms_des_par]
    /\ pc' = "opt_done"
    /\ UNCHANGED <<env, ms_des_par, ms_od_par, m_last, m_od, loc, arg, obs>>

\* the cycle object as constructed: the cached optimum holds no design
UnsetDesPar ==
    [m_W_dot_net |-> NaN, m_T_mc_in |-> NaN, m_T_t_in |-> NaN, m_P_mc_in |-> NaN,
     m_P_mc_out |-> NaN, m_DP_LT |-> <<0, 0>>, m_DP_HT |-> <<0, 0>>, m_DP_PC |-> <<0, 0>>,
     m_DP_PHX |-> <<0, 0>>, m_UA_LT |-> NaN, m_UA_HT |-> NaN, m_recomp_frac |-> NaN,
     m_eta_mc |-> NaN, m_eta_rc |-> NaN, m_eta_t |-> NaN, m_N_sub_hxrs |-> 1,
     m_tol |-> Tol(1, 10), m_P_high_limit |-> NaN, m_N_turbine |-> NaN]

InitOpt ==
    /\ InitCommon
    /\ pc = "opt_call"
    /\ env = NoFail
    /\ ms_des_par = UnsetDesPar
    /\ ms_od_par = NoOdPar
    /\ perf = perf0
    /\ arg = NoArg
    /\ opt = [caller |-> "none", run |-> 0,
              ms_opt_des_par |-> OptDesPar(200, 7, TRUE, TRUE, TRUE, TRUE),
              ms_des_par_optimal |-> UnsetDesPar, m_eta_thermal_opt |-> NaN,
              evals |-> <<>>, design_core_calls |-> 0, calls_before |-> 0]

NextOpt ==
    \/ OptDesignStart
    \/ OptimizerEvaluate
    \/ DesignPointEtaCall
    \/ DesignStart
    \/ T8LoopHead
    \/ T9Iterate
    \/ T8Body
    \/ DesignFinish
    \/ DesignPointEtaReturn
    \/ OptimizerResume
    \/ OptimizerReturn
    \/ OptDesignFinish

SpecOpt == InitOpt /\ [][NextOpt]_vars

\* ------------------------------------------------------------------------
\* auto_opt_design_hit_eta: finds the total recuperator conductance whose
\* optimized design has the target efficiency.  Temperatures are in K,
\* efficiencies in percent, pressures in MPa, the ratio of conductance to
\* net power in parts of RatioDen.  What auto_opt_design_core answers (its
\* error code and the efficiency of the design it solved) is an input of
\* every call.

RatioDen == 320

\* limits of the property library
T_crit == 304
T_upper_limit == 1500
P_upper_limit == 100

T_mc_in_max == 343
T_t_in_min == 573
P_high_limit_min == 10
EtaMax == 100
EtaMin == 10

\* variant: the target may equal the Carnot efficiency
AtLeastCarnotStrict(eta, T_mc_in, T_t_in) == eta * T_t_in > 100 * (T_t_in - T_mc_in)

\* eta >= 1 - T_mc_in/T_t_in for T_t_in > 0, eta in percent
AtLeastCarnot(eta, T_mc_in, T_t_in) == eta * T_t_in >= 100 * (T_t_in - T_mc_in)

\* the value after `if (v > hi) v = hi`, with the message the reset appends
ResetAbove(v, hi, msg) == IF FGt(v, hi) THEN [v |-> hi, msg |-> <<msg>>] ELSE [v |-> v, msg |-> <<>>]
ResetBelow(v, lo, msg) == IF FLt(v, lo) THEN [v |-> lo, msg |-> <<msg>>] ELSE [v |-> v, msg |-> <<>>]

HitChecked(e, msg, par) == [error_code |-> e, error_msg |-> msg, par |-> par]

\* the checks of auto_opt_design_hit_eta up to the first guess: the error
\* code, the messages appended and ms_auto_opt_des_par
hit_eta_checks(in) ==
    LET par0 == [m_W_dot_net |-> in.m_W_dot_net, m_T_mc_in |-> in.m_T_mc_in, m_T_t_in |-> in.m_T_t_in,
                 m_UA_rec_total |-> NaN, m_eta_mc |-> in.m_eta_mc, m_eta_rc |-> in.m_eta_rc,
                 m_eta_t |-> in.m_eta_t, m_P_high_limit |-> in.m_P_high_limit, m_tol |-> in.m_tol]
        T_mc == ResetAbove(par0.m_T_mc_in, T_mc_in_max, "T_mc_in reset")
        par1 == [par0 EXCEPT !.m_T_mc_in = T_mc.v]
        T_t == ResetBelow(par1.m_T_t_in, T_t_in_min, "T_t_in reset")
        par2 == [par1 EXCEPT !.m_T_t_in = T_t.v]
        msg2 == T_mc.msg \o T_t.msg
        mc1 == ResetAbove(par2.m_eta_mc, EtaMax, "eta_mc reset to 1")
        rc1 == ResetAbove(par2.m_eta_rc, EtaMax, "eta_rc reset to 1")
        t1 == ResetAbove(par2.m_eta_t, EtaMax, "eta_t reset to 1")
        mc2 == ResetBelow(mc1.v, EtaMin, "eta_mc raised to 0.1")
        rc2 == ResetBelow(rc1.v, EtaMin, "eta_rc raised to 0.1")
        t2 == ResetBelow(t1.v, EtaMin, "eta_t raised to 0.1")
        P == IF FGe(par2.m_P_high_limit, P_upper_limit)
             THEN [v |-> P_upper_limit, msg |-> <<"P_high_limit reset">>]
             ELSE [v |-> par2.m_P_high_limit, msg |-> <<>>]
        par3 == [par2 EXCEPT !.m_eta_mc = mc2.v, !.m_eta_rc = rc2.v, !.m_eta_t = t2.v]
        msg3 == msg2 \o mc1.msg \o rc1.msg \o t1.msg \o mc2.msg \o rc2.msg \o t2.msg
        par4 == [par3 EXCEPT !.m_P_high_limit = P.v]
        msg4 == msg3 \o P.msg
    IN
    IF FLe(par0.m_T_mc_in, T_crit) THEN HitChecked(-1, <<"single phase only">>, par0)
    ELSE IF FLe(par2.m_T_t_in, par2.m_T_mc_in)
         THEN HitChecked(-1, msg2 \o <<"turbine inlet colder than compressor inlet">>, par2)
    ELSE IF FGe(par2.m_T_t_in, T_upper_limit)
         THEN HitChecked(-1, msg2 \o <<"turbine inlet above property limit">>, par2)
    ELSE IF FLe(par4.m_P_high_limit, P_high_limit_min)
         THEN HitChecked(-1, msg4 \o <<"P_high_limit too low">>, par4)
    ELSE IF FLe(in.m_eta_thermal, 0)
         THEN HitChecked(-1, msg4 \o <<"eta_thermal must be greater than 0">>, par4)
    ELSE IF AtLeastCarnot(in.m_eta_thermal, par4.m_T_mc_in, par4.m_T_t_in)
         THEN HitChecked(-1, msg4 \o <<"eta_thermal must be less than Carnot">>, par4)
    ELSE HitChecked(0, msg4, par4)

\* ratio * W_dot_net
RatioTimesPower(ratio, W) == FDiv(FMul(ratio, W), RatioDen)

\* x / W_dot_net <= ratio and x / W_dot_net >= ratio
RatioAtMost(x, W, ratio) == FLe(FDiv(FMul(x, RatioDen), W), ratio)
RatioAtLeast(x, W, ratio) == FGe(FDiv(FMul(x, RatioDen), W), ratio)

\* the false-position step between the two bounds
FalsePosition(x_lower, y_lower, x_upper, y_upper) ==
    FAdd(FDiv(FMul(FNeg(y_upper), FSub(x_lower, x_upper)), FSub(y_lower, y_upper)), x_upper)

\* opt_des_calls is compared with 5 only: counts above 5 are kept as 6
CallsCap == 6

hit0 ==
    [UA_recups_guess |-> NaN, diff_eta |-> NaN, low_flag |-> FALSE, high_flag |-> FALSE,
     y_upper |-> NaN, y_lower |-> NaN, x_upper |-> NaN, x_lower |-> NaN, opt_des_calls |-> 0,
     UA_net_power_ratio_max |-> NaN, UA_net_power_ratio_min |-> NaN, eta_calc |-> NaN]

\* auto_opt_design_hit_eta from its entry to its first call of
\* auto_opt_design_core, or to its return when a check fails
HitEtaStart ==
    /\ pc = "hit_start"
    /\ LET c == hit_eta_checks(arg.in)
       IN IF c.error_code # 0
          THEN /\ pc' = "hit_done"
               /\ error_code' = c.error_code
               /\ ret' = [call |-> "auto_opt_design_hit_eta", error_code |-> c.error_code,
                          error_msg |-> c.error_msg]
               /\ opt' = [opt EXCEPT !.ms_auto_opt_des_par = c.par]
               /\ loc' = loc
          ELSE /\ pc' = "hit_core"
               /\ error_code' = 0
               /\ ret' = [call |-> "auto_opt_design_hit_eta", error_code |-> 0,
                          error_msg |-> c.error_msg]
               /\ opt' = [opt EXCEPT !.ms_auto_opt_des_par =
                            [c.par EXCEPT !.m_UA_rec_total = RatioTimesPower(RatioDen \div 10, c.par.m_W_dot_net)]]
               /\ loc' = [hit0 EXCEPT !.UA_recups_guess = RatioTimesPower(RatioDen \div 10, c.par.m_W_dot_net),
                                      !.UA_net_power_ratio_max = arg.ms_des_limits.m_UA_net_power_ratio_max,
                                      !.UA_net_power_ratio_min = arg.ms_des_limits.m_UA_net_power_ratio_min,
                                      !.opt_des_calls = 1]
    /\ UNCHANGED <<env, ms_des_par, ms_od_par, m_last, m_od, perf, arg, obs>>

\* the efficiencies a solved optimized design may have, and the codes
\* auto_opt_design_core may return
CoreEfficiencies == {35, 39, 46}
CoreErrorCodes == {0, 35}

\* a call of auto_opt_design_core with ms_auto_opt_des_par and what
\* auto_opt_design_hit_eta does on its return
AutoOptDesignCoreCall ==
    /\ pc = "hit_core"
    /\ \E e \in CoreErrorCodes, eta \in CoreEfficiencies :
          IF e # 0
          THEN /\ pc' = "hit_done"
               /\ error_code' = -1
               /\ ret' = [ret EXCEPT !.error_code = -1, !.error_msg = @ \o <<"can't optimize">>]
               /\ loc' = loc
               /\ perf' = perf
          ELSE /\ pc' = "hit_loop"
               /\ error_code' = error_code
               /\ ret' = ret
               /\ loc' = [loc EXCEPT !.eta_calc = eta, !.diff_eta = FSub(eta, arg.in.m_eta_thermal)]
               /\ perf' = [perf EXCEPT !.ms_des_solved = [set |-> TRUE, m_is_rc |-> FALSE,
                                                           m_eta_thermal |-> eta]]
    /\ obs' = [obs EXCEPT !.step = "auto_opt_design_core", !.guess = opt.ms_auto_opt_des_par.m_UA_rec_total]
    /\ UNCHANGED <<env, ms_des_par, ms_od_par, m_last, m_od, opt, arg>>

\* one pass of the while loop from its test to the next call of
\* auto_opt_design_core, or the return
HitEtaIterate ==
    /\ pc = "hit_loop"
    /\ LET W == opt.ms_auto_opt_des_par.m_W_dot_net
           calls == IF loc.opt_des_calls + 1 > CallsCap THEN CallsCap ELSE loc.opt_des_calls + 1
           too_large == FGt(loc.diff_eta, 0)
           l1 == IF too_large
                 THEN [loc EXCEPT !.opt_des_calls = calls, !.low_flag = TRUE,
                                  !.x_lower = loc.UA_recups_guess, !.y_lower = loc.diff_eta]
                 ELSE [loc EXCEPT !.opt_des_calls = calls, !.high_flag = TRUE,
                                  !.x_upper = loc.UA_recups_guess, !.y_upper = loc.diff_eta]
           guess == IF l1.low_flag /\ l1.high_flag
                    THEN FalsePosition(l1.x_lower, l1.y_lower, l1.x_upper, l1.y_upper)
                    ELSE IF too_large
                    THEN (IF calls > 5 THEN RatioTimesPower(loc.UA_net_power_ratio_min, W)
                          ELSE FDiv(loc.UA_recups_guess, 2))
                    ELSE (IF calls > 5 THEN RatioTimesPower(loc.UA_net_power_ratio_max, W)
                          ELSE FDiv(FMul(loc.UA_recups_guess, 5), 2))
           l2 == [l1 EXCEPT !.UA_recups_guess = guess]
           out_of_range == IF too_large THEN RatioAtMost(l1.x_lower, W, loc.UA_net_power_ratio_min)
                           ELSE RatioAtLeast(l1.x_upper, W, loc.UA_net_power_ratio_max)
       IN IF ~FGt(FAbs(loc.diff_eta), opt.ms_auto_opt_des_par.m_tol)
          THEN /\ pc' = "hit_done"
               /\ loc' = loc
               /\ UNCHANGED <<error_code, ret, opt>>
          ELSE IF out_of_range
          THEN /\ pc' = "hit_done"
               /\ loc' = l2
               /\ error_code' = -1
               /\ ret' = [ret EXCEPT !.error_code = -1,
                                     !.error_msg = @ \o <<IF too_large THEN "eta_thermal too small"
                                                          ELSE "eta_thermal too large">>]
               /\ opt' = opt
          ELSE /\ pc' = "hit_core"
               /\ loc' = l2
               /\ opt' = [opt EXCEPT !.ms_auto_opt_des_par.m_UA_rec_total = guess]
               /\ UNCHANGED <<error_code, ret>>
    /\ UNCHANGED <<env, ms_des_par, ms_od_par, m_last, m_od, perf, arg, obs>>

\* the inputs of auto_opt_design_hit_eta: a base input, its temperatures and
\* target varied together, and its other members varied one at a time
HitIn(W, T_mc, T_t, eta_c, P, tol, eta) ==
    [m_W_dot_net |-> W, m_T_mc_in |-> T_mc, m_T_t_in |-> T_t, m_eta_mc |-> eta_c, m_eta_rc |-> 90,
     m_eta_t |-> 90, m_P_high_limit |-> P, m_tol |-> tol, m_eta_thermal |-> eta]

HitEtaInputs ==
    {HitIn(320, T_mc, T_t, 90, 25, 1, eta) :
        T_mc \in {300, 320, 400}, T_t \in {320, 500, 800, 1600}, eta \in {-5, 0, 40, 58, 60, 100}}
    \cup {HitIn(W, 320, 800, eta_c, 25, 1, eta) : W \in {320, 640}, eta_c \in {90, 120, -88}, eta \in {0, 40}}
    \cup {HitIn(320, 320, 800, 90, P, tol, eta) : P \in {8, 10, 25, 200}, tol \in {1, 3}, eta \in {40, 60}}

\* the limits the object holds: the ratio of conductance to net power
DesignLimits(in) ==
    {[m_UA_net_power_ratio_max |-> 640, m_UA_net_power_ratio_min |-> 1]}
    \cup IF in = HitIn(320, 320, 800, 90, 25, 1, 40)
         THEN {[m_UA_net_power_ratio_max |-> 3200, m_UA_net_power_ratio_min |-> 8]}
         ELSE {}

InitHit ==
    /\ InitCommon
    /\ pc = "hit_start"
    /\ env = NoFail
    /\ ms_des_par = NoDesPar
    /\ ms_od_par = NoOdPar
    /\ perf = perf0
    /\ opt = [caller |-> "auto_opt_design_hit_eta", ms_auto_opt_des_par |-> [m_UA_rec_total |-> NaN]]
    /\ \E in \in HitEtaInputs : \E lim \in DesignLimits(in) :
          arg = [call |-> "auto_opt_design_hit_eta", in |-> in, ms_des_limits |-> lim]

NextHit ==
    \/ HitEtaStart
    \/ AutoOptDesignCoreCall
    \/ HitEtaIterate

SpecHit == InitHit /\ [][NextHit]_vars

\* the scheduler runs the one thread of the call until it returns
SpecHitFair == SpecHit /\ WF_vars(NextHit)

\* ------------------------------------------------------------------------
\* off_design_point_value: the objective of the off-design optimizer.  x
\* holds the free variables in the order compressor inlet pressure,
\* recompression fraction, compressor speed, turbine speed; a fixed one is
\* left out of x and taken from its guess.

OptOdPar(fixed_P, fixed_rf, fixed_N_mc, fixed_N_t, rf_guess, is_max_W_dot) ==
    [m_fixed_P_mc_in |-> fixed_P, m_P_mc_in_guess |-> 8,
     m_fixed_recomp_frac |-> fixed_rf, m_recomp_frac_guess |-> rf_guess,
     m_fixed_N_mc |-> fixed_N_mc, m_N_mc_guess |-> 10,
     m_fixed_N_t |-> fixed_N_t, m_N_t_guess |-> 7,
     m_is_max_W_dot |-> is_max_W_dot]

\* off_design_point_value up to its call of off_design_core: rejected tells
\* that it returned 0 before the call
off_design_point_value_inputs(op, par, x) ==
    LET i1 == IF op.m_fixed_P_mc_in THEN 0 ELSE 1
        i2 == IF op.m_fixed_recomp_frac THEN i1 ELSE i1 + 1
        i3 == IF op.m_fixed_N_mc THEN i2 ELSE i2 + 1
        i4 == IF op.m_fixed_N_t THEN i3 ELSE i3 + 1
        P_mc_in == IF op.m_fixed_P_mc_in THEN op.m_P_mc_in_guess ELSE x[i1]
        recomp_frac == IF op.m_fixed_recomp_frac THEN op.m_recomp_frac_guess ELSE x[i2]
        N_mc == IF op.m_fixed_N_mc THEN op.m_N_mc_guess ELSE x[i3]
        N_t_in == IF op.m_fixed_N_t THEN op.m_N_t_guess ELSE x[i4]
        N_t == IF FLe(N_t_in, 0) THEN N_mc ELSE N_t_in
        par1 == [par EXCEPT !.m_P_mc_in = P_mc_in, !.m_recomp_frac = recomp_frac,
                            !.m_N_mc = N_mc, !.m_N_t = N_t]
    IN [rejected |-> FLt(recomp_frac, 0), ms_od_par |-> par1]

OverPressurePenalty == 5

\* the value after the check against the design pressure limit:
\* value * (1 - penalty * max(0, (P - limit) / limit)), as one quotient
PenaltyNumerator(P, limit) == limit - OverPressurePenalty * (P - limit)

Penalized(value, P, limit) ==
    IF FGt(P, limit) THEN FDiv(FMul(value, PenaltyNumerator(P, limit)), limit) ELSE value

OffDesignPointValueCall ==
    /\ pc = "odv_call"
    /\ LET r == off_design_point_value_inputs(opt.ms_opt_od_par, ms_od_par, arg.x)
       IN /\ ms_od_par' = r.ms_od_par
          /\ IF r.rejected
             THEN /\ pc' = "odv_done"
                  /\ ret' = [call |-> "off_design_point_value", value |-> 0, rejected |-> TRUE,
                             od_error_code |-> 0, unpenalized |-> 0]
             ELSE /\ pc' = "od_start"
                  /\ ret' = ret
    /\ UNCHANGED <<error_code, env, ms_des_par, m_last, m_od, loc, perf, opt, arg, obs>>

\* off_design_point_value after off_design_core has returned
OffDesignPointValueReturn ==
    /\ pc = "done"
    /\ opt.caller = "off_design_point_value"
    /\ LET od_error_code == error_code
           unpenalized == IF opt.ms_opt_od_par.m_is_max_W_dot
                          THEN perf.ms_od_solved.m_W_dot_net
                          ELSE perf.ms_od_solved.m_eta_thermal
           value == Penalized(unpenalized, m_od.pres[2], ms_des_par.m_P_high_limit)
       IN IF od_error_code # 0
          THEN /\ ret' = [call |-> "off_design_point_value", value |-> 0, rejected |-> FALSE,
                          od_error_code |-> od_error_code, unpenalized |-> 0]
               /\ opt' = opt
          ELSE /\ ret' = [call |-> "off_design_point_value", value |-> value, rejected |-> FALSE,
                          od_error_code |-> 0, unpenalized |-> unpenalized]
               /\ opt' = IF FGt(value, opt.m_W_dot_net_max)
                         THEN [opt EXCEPT !.ms_od_par_optimal = ms_od_par,
                                          !.m_W_dot_net_max = value]
                         ELSE opt
    /\ pc' = "odv_done"
    /\ UNCHANGED <<error_code, env, ms_des_par, ms_od_par, m_last, m_od, loc, perf, arg, obs>>

\* the free-variable vectors tried: a free variable takes a value other than
\* its guess, a turbine speed of 0 links the shafts
OdVectors(op) ==
    LET Ps == IF op.m_fixed_P_mc_in THEN {<<>>} ELSE {<<6>>}
        rfs == IF op.m_fixed_recomp_frac THEN {<<>>} ELSE {<<f>> : f \in {-1, 2}}
        Nmcs == IF op.m_fixed_N_mc THEN {<<>>} ELSE {<<8>>}
        Nts == IF op.m_fixed_N_t THEN {<<>>} ELSE {<<0>>}
    IN {a \o b \o c \o d : a \in Ps, b \in rfs, c \in Nmcs, d \in Nts}

\* the design pressure limits tried, on both sides of the compressor outlet
\* pressures the solves give
HighLimits == {8, 10, 12, 20}

InitOdv ==
    /\ InitCommon
    /\ pc = "odv_call"
    /\ ms_od_par = NoOdPar
    /\ \E limit \in HighLimits :
          /\ ms_des_par = [m_P_high_limit |-> limit] @@ NoDesPar
          /\ \/ env = NoFail
             \/ limit = 20 /\ env = [failSite |-> "mc.TP", failCode |-> 1, hotSite |-> "none"]
    /\ \E A \in {30, 40}, f \in {0, 2} : perf = OdDesign(A, 80, 80, 0, f)
    /\ \E fixed_P \in BOOLEAN, fixed_rf \in BOOLEAN, fixed_N_mc \in BOOLEAN, fixed_N_t \in BOOLEAN,
          rf_guess \in {-1, 0, 2}, is_max_W_dot \in BOOLEAN :
          /\ fixed_rf \/ rf_guess = 2
          /\ opt = [caller |-> "off_design_point_value",
                    ms_opt_od_par |-> OptOdPar(fixed_P, fixed_rf, fixed_N_mc, fixed_N_t, rf_guess,
                                               is_max_W_dot),
                    ms_od_par_optimal |-> NoOdPar, m_W_dot_net_max |-> 0]
          /\ \E x \in OdVectors(opt.ms_opt_od_par) :
                arg = [call |-> "off_design_point_value", x |-> x]

NextOdv ==
    \/ OffDesignPointValueCall
    \/ OdStart
    \/ MdotIterate
    \/ OdDefineKnownStates
    \/ OdT8LoopHead
    \/ OdT9Iterate
    \/ OdT8Body
    \/ OdFinish
    \/ OffDesignPointValueReturn

SpecOdv == InitOdv /\ [][NextOdv]_vars

\* ------------------------------------------------------------------------
\* wind_power_calculator (lib_windwatts.cpp).  Wind speeds are in dm/s,
\* powers in 0.1 kW, distances in metres or rotor radii as in the code;
\* thrust and power coefficients, deficits, turbulence intensities and
\* density ratios are in thousandths (Milli).

Milli == 1000

\* (a > b) ? a : b and (a < b) ? a : b
max_of(a, b) == IF FGt(a, b) THEN a ELSE b

min_of(a, b) == IF FLt(a, b) THEN a ELSE b

\* sqrt, rounded down; the argument stays below 2^31
ISqrt(n) == IF n <= 0 THEN 0 ELSE SqrtFrom(n, 0, 46340)

\* sqrt of a value in thousandths, in thousandths
SqrtMilli(x) == IF x < 2000000 THEN ISqrt(x * Milli) ELSE 100 * ISqrt(x \div 10)

\* pow(x, 1.0/3.0) of a value in thousandths, in hundredths
CubeRootCenti(x) == CHOOSE r \in 0..215 : r * r * r <= x * Milli /\ (r + 1) * (r + 1) * (r + 1) > x * Milli

\* util::interpolate: the straight line through (x0, y0) and (x1, y1) at x
Interpolate(x0, y0, x1, y1, x) == y0 + TDiv((y1 - y0) * (x - x0), x1 - x0)

\* the turbine and farm settings of the calculator object
WindTurbine(shear, control, loss_abs) ==
    [m_dHubHeight |-> 80, m_dMeasurementHeight |-> 80, m_dShearExponent |-> shear,
     m_dCutInSpeed |-> 40, m_iControlMode |-> control, m_dRatedSpeed |-> 120,
     m_dRatedPower |-> 1000, m_dLossesPercent |-> 0, m_dLossesAbsolute |-> loss_abs,
     m_dRotorDiameter |-> 20, m_dTurbulenceIntensity |-> 100, m_dWakeDecayCoefficient |-> 70,
     m_dMaxRotorDiameters |-> 6, m_dAxialResolution |-> 2, m_bFilter |-> TRUE,
     m_dMinThrustCoeff |-> 20, m_dMinDeficit |-> 2,
     m_adPowerCurveWS |-> <<0, 30, 50, 80, 120, 250>>,
     m_adPowerCurveKW |-> <<0, 0, 100, 500, 1000, 1000>>]

\* the shear exponent turbine_power works with: a value above 1 is replaced
\* by 1/7 (shear exponents are 0, Milli or the code 143 for 1/7)
ShearExponent(t) == IF t.m_dShearExponent > Milli THEN 143 ELSE t.m_dShearExponent

\* pow(hub height / measurement height, shear exponent), in thousandths
ShearFactor(t) ==
    IF ShearExponent(t) = 0 \/ t.m_dHubHeight = t.m_dMeasurementHeight THEN Milli
    ELSE IF ShearExponent(t) = Milli THEN (Milli * t.m_dHubHeight) \div t.m_dMeasurementHeight
    ELSE Milli + (104 * (t.m_dHubHeight - t.m_dMeasurementHeight)) \div t.m_dMeasurementHeight

\* the index of the first power-curve speed above v (v is below the last)
RECURSIVE FirstAbove(_, _, _)
FirstAbove(ws, j, v) == IF ws[j] <= v THEN FirstAbove(ws, j + 1, v) ELSE j

\* the thrust coefficient polynomial of the power coefficient
ThrustPolynomial(cp) ==
    LET csq == (cp * cp) \div Milli
        ccube == (csq * cp) \div Milli
    IN max_of(0, TDiv(-14540 + 1474 * cp - 2331 * csq + 3885 * ccube, Milli))

\* turbine_power: density is the air density over the sea-level density
turbine_power(t, fWindVelocityAtDataHeight, density) ==
    LET n == Len(t.m_adPowerCurveWS)
        v == (fWindVelocityAtDataHeight * ShearFactor(t)) \div Milli
        curve == IF v > t.m_adPowerCurveWS[1] /\ v < t.m_adPowerCurveWS[n]
                 THEN LET j == FirstAbove(t.m_adPowerCurveWS, 2, v)
                      IN Interpolate(t.m_adPowerCurveWS[j - 1], t.m_adPowerCurveKW[j - 1],
                                     t.m_adPowerCurveWS[j], t.m_adPowerCurveKW[j], v)
                 ELSE IF v >= t.m_adPowerCurveWS[n] THEN t.m_adPowerCurveKW[n]
                 ELSE 0
        cut == IF v < t.m_dCutInSpeed THEN 0 ELSE curve
        dens == (cut * density) \div Milli
        NewVRat == (t.m_dRatedSpeed * CubeRootCenti(density)) \div 100
        out_pwr == IF t.m_iControlMode \in {0, 1}
                   THEN IF dens > t.m_dRatedPower THEN t.m_dRatedPower
                        ELSE IF v > NewVRat THEN t.m_dRatedPower
                        ELSE dens
                   ELSE dens
        net == (out_pwr * (Milli - t.m_dLossesPercent)) \div Milli - t.m_dLossesAbsolute
        flux == (((481 * density) \div Milli) * ((((v * v * v) \div Milli) * t.m_dRotorDiameter * t.m_dRotorDiameter) \div 10)) \div 100
        fPowerCoefficient == max_of(0, TDiv(net * 100 * Milli, flux))
    IN IF fWindVelocityAtDataHeight = NaN THEN [fTurbineOutput |-> 0, fThrustCoefficient |-> 0]
       ELSE IF out_pwr * 100 > t.m_dRatedPower
       THEN [fTurbineOutput |-> net, fThrustCoefficient |-> ThrustPolynomial(fPowerCoefficient)]
       ELSE [fTurbineOutput |-> 0, fThrustCoefficient |-> 0]

\* air density over sea-level density from the pressure (thousandths of an
\* atmosphere) and the dry-bulb temperature (deg C): P / (R T) over 1.225
AirDensityRatio(dAirPressureAtm, TdryC) == (dAirPressureAtm * 28815) \div (TdryC * 100 + 27315)

\* cos and sin of a multiple of 90 degrees
CosDeg(a) == CASE a % 360 = 0 -> 1 [] a % 360 = 180 -> -1 [] OTHER -> 0

SinDeg(a) == CASE a % 360 = 90 -> 1 [] a % 360 = 270 -> -1 [] OTHER -> 0

\* coordtrans: map coordinates to downwind and crosswind coordinates
coordtrans(fMetersNorth, fMetersEast, fWind_dir_degrees) ==
    [d |-> fMetersEast * CosDeg(fWind_dir_degrees + 90) - fMetersNorth * SinDeg(fWind_dir_degrees + 90),
     c |-> fMetersEast * SinDeg(fWind_dir_degrees + 90) + fMetersNorth * CosDeg(fWind_dir_degrees + 90)]

RECURSIVE SeqSum(_, _)
SeqSum(s, j) == IF j = 0 THEN 0 ELSE s[j] + SeqSum(s, j - 1)

RECURSIVE SeqMin(_, _)
SeqMin(s, j) == IF j = 1 THEN s[1] ELSE min_of(s[j], SeqMin(s, j - 1))

\* the insertion sort by downwind distance: s holds records of downwind
\* distance d, crosswind distance c and turbine id
RECURSIVE InsertByDistance(_, _, _)
InsertByDistance(s, i, item) ==
    IF i > 1 /\ s[i - 1].d > item.d
    THEN InsertByDistance([s EXCEPT ![i] = s[i - 1]], i - 1, item)
    ELSE [s EXCEPT ![i] = item]

RECURSIVE SortByDistance(_, _)
SortByDistance(s, j) == IF j > Len(s) THEN s ELSE SortByDistance(InsertByDistance(s, j, s[j]), j + 1)

\* the insertion sort of the output rows back to turbine id order
RECURSIVE InsertById(_, _, _)
InsertById(s, i, item) ==
    IF i > 1 /\ s[i - 1].id > item.id
    THEN InsertById([s EXCEPT ![i] = s[i - 1]], i - 1, item)
    ELSE [s EXCEPT ![i] = item]

RECURSIVE SortById(_, _)
SortById(s, j) == IF j > Len(s) THEN s ELSE SortById(InsertById(s, j, s[j]), j + 1)

\* 100.0*(P + 0.0001)/(P0 + 0.0001), 0 for a negative P0
Efficiency(P, P0) == IF P0 < 0 THEN 0 ELSE TDiv(100 * (P * Milli + 1), P0 * Milli + 1)

RECURSIVE Log2Floor(_)
Log2Floor(x) == IF x < 2 THEN 0 ELSE 1 + Log2Floor(x \div 2)

RECURSIVE Pow2(_)
Pow2(k) == IF k = 0 THEN 1 ELSE 2 * Pow2(k - 1)

\* log of a whole number x >= 1, in thousandths: exact at the powers of 2
\* and a straight line between them
LnMilli(x) ==
    LET k == Log2Floor(x)
    IN 693 * k + (693 * (x - Pow2(k))) \div Pow2(k)

\* exp(-x) for x >= 0 in thousandths, in thousandths: exact at the
\* multiples of log 2 and a straight line between them
ExpNegMilli(x) ==
    LET k == x \div 693
    IN IF k >= 20 THEN 0 ELSE (Milli - (500 * (x % 693)) \div 693) \div Pow2(k)

\* vel_delta_PQ: the velocity deficit and the new turbulence intensity at a
\* turbine from one upwind turbine; distances in radii
vel_delta_PQ(fRadiiCrosswind, fAxialDistInRadii, fThrustCoeff, fTurbulenceIntensity) ==
    LET fAddedTurbulence == TDiv(fThrustCoeff * (Milli - (400 * LnMilli(2 * fAxialDistInRadii)) \div Milli), 7 * Milli)
        fNew == ISqrt(fAddedTurbulence * fAddedTurbulence + fTurbulenceIntensity * fTurbulenceIntensity)
        AA == ((fNew * fNew) \div Milli) * fAxialDistInRadii * fAxialDistInRadii
        fExp == min_of(99 * Milli, (fRadiiCrosswind * fRadiiCrosswind * Milli * 500) \div AA)
        dVelocityDeficit == IF AA = 0 THEN Milli ELSE (((fThrustCoeff * Milli) \div (4 * AA)) * ExpNegMilli(fExp)) \div Milli
    IN IF fRadiiCrosswind > 20 \/ fTurbulenceIntensity <= 0 \/ fAxialDistInRadii <= 0 \/ fThrustCoeff <= 0
       THEN [vdef |-> 0, ti |-> fTurbulenceIntensity]
       ELSE [vdef |-> max_of(min_of(dVelocityDeficit, Milli), 0), ti |-> fNew]

\* circle_overlap over the rotor area: the share of the rotor disc of radius
\* rad1 inside the wake of radius rad2, in thousandths; between touching
\* and full cover the lens area is taken to grow linearly
OverlapFraction(dist, rad1, rad2) ==
    IF dist < 0 \/ rad1 < 0 \/ rad2 < 0 THEN 0
    ELSE IF dist > rad1 + rad2 THEN 0
    ELSE IF rad1 >= dist + rad2 THEN (Milli * rad2 * rad2) \div (rad1 * rad1)
    ELSE IF rad2 >= dist + rad1 THEN Milli
    ELSE (Milli * (rad1 + rad2 - dist)) \div (2 * min_of(rad1, rad2))

\* wake_deficit_Park: distances and radii in metres
wake_deficit_Park(t, dDistCrossWind, dDistDownWind, dRadiusUpstream, dRadiusDownstream, dThrustCoeff) ==
    LET dRadiusOfWake == dRadiusUpstream + (t.m_dWakeDecayCoefficient * dDistDownWind) \div Milli
        share == OverlapFraction(dDistCrossWind, dRadiusDownstream, dRadiusOfWake)
        narrow == (Milli * dRadiusUpstream * dRadiusUpstream) \div (dRadiusOfWake * dRadiusOfWake)
    IN IF dThrustCoeff > Milli THEN 0
       ELSE ((((Milli - SqrtMilli(Milli - dThrustCoeff)) * narrow) \div Milli) * share) \div Milli

\* the running state of a wake model: the output arrays in sorted order
WithTurbine(w, i, speed, tp, ti) ==
    [w EXCEPT !.adWindSpeed[i] = speed, !.Power[i] = tp.fTurbineOutput,
              !.Thrust[i] = tp.fThrustCoefficient, !.aTurbulence_intensity[i] = ti,
              !.Eff[i] = Efficiency(tp.fTurbineOutput, w.Power[1])]

\* wake_calculations_pat_quinlan_mod: the inner loop over the upwind
\* turbines j < i gives the product of (1 - deficit) and the turbulence
\* intensity at turbine i
RECURSIVE PQModUpwind(_, _, _, _, _)
PQModUpwind(w, pos, i, j, acc) ==
    IF j >= i THEN acc
    ELSE LET r == vel_delta_PQ(Abs(pos[j].c - pos[i].c), Abs(pos[j].d - pos[i].d), w.Thrust[j], acc.ti)
         IN PQModUpwind(w, pos, i, j + 1, [dDeficit |-> (acc.dDeficit * (Milli - r.vdef)) \div Milli, ti |-> r.ti])

RECURSIVE wake_calculations_pat_quinlan_mod(_, _, _, _, _)
wake_calculations_pat_quinlan_mod(t, air_density, pos, w, i) ==
    IF i > Len(pos) THEN w
    ELSE LET acc == PQModUpwind(w, pos, i, 1, [dDeficit |-> Milli, ti |-> w.aTurbulence_intensity[i]])
             speed == (w.adWindSpeed[i] * acc.dDeficit) \div Milli
         IN wake_calculations_pat_quinlan_mod(t, air_density, pos,
                WithTurbine(w, i, speed, turbine_power(t, speed, air_density), acc.ti), i + 1)

\* wake_calculations_Park: the largest deficit of the upwind turbines
RECURSIVE ParkUpwind(_, _, _, _, _, _)
ParkUpwind(t, w, pos, i, j, dDeficit) ==
    IF j >= i THEN dDeficit
    ELSE LET R == t.m_dRotorDiameter \div 2
         IN ParkUpwind(t, w, pos, i, j + 1,
                max_of(dDeficit, wake_deficit_Park(t, R * Abs(pos[i].c - pos[j].c), R * Abs(pos[i].d - pos[j].d), R, R, w.Thrust[j])))

RECURSIVE wake_calculations_Park(_, _, _, _, _)
wake_calculations_Park(t, air_density, pos, w, i) ==
    IF i > Len(pos) THEN w
    ELSE LET speed == (w.adWindSpeed[i] * (Milli - ParkUpwind(t, w, pos, i, 1, 0))) \div Milli
         IN wake_calculations_Park(t, air_density, pos,
                WithTurbine(w, i, speed, turbine_power(t, speed, air_density), w.aTurbulence_intensity[i]), i + 1)

\* wake_calculations_pat_quinlan_old: turbine i lowers the speed and raises
\* the turbulence at every turbine j behind it; the output of turbine i + 1
\* is set as soon as turbine i has acted on it
RECURSIVE PQOldDownwind(_, _, _, _, _, _)
PQOldDownwind(t, air_density, pos, w, i, j) ==
    IF j > Len(pos) THEN w
    ELSE LET r == vel_delta_PQ(Abs(pos[j].c - pos[i].c), pos[j].d - pos[i].d, w.Thrust[i], w.aTurbulence_intensity[j])
             speed == (w.adWindSpeed[j] * (Milli - r.vdef)) \div Milli
             w1 == [w EXCEPT !.adWindSpeed[j] = speed, !.aTurbulence_intensity[j] = r.ti]
             w2 == IF j = i + 1 THEN WithTurbine(w1, j, speed, turbine_power(t, speed, air_density), r.ti) ELSE w1
         IN PQOldDownwind(t, air_density, pos, w2, i, j + 1)

RECURSIVE wake_calculations_pat_quinlan_old(_, _, _, _, _)
wake_calculations_pat_quinlan_old(t, air_density, pos, w, i) ==
    IF i > Len(pos) - 1 THEN w
    ELSE wake_calculations_pat_quinlan_old(t, air_density, pos, PQOldDownwind(t, air_density, pos, w, i, i + 1), i + 1)

\* the eddy-viscosity model keeps, for each turbine in sorted order, one
\* row of centreline deficits and one of wake widths (in diameters) at the
\* axial stations MIN_DIAM_EV + k * m_dAxialResolution
MIN_DIAM_EV == 2

\* the number of columns AllocateMemory gives both matrices
EVColumns(t) == t.m_dMaxRotorDiameters \div t.m_dAxialResolution + 1

\* matrices that hold the wakes of an earlier evaluation
EVStale(t, n) == [deficits |-> [k \in 1..n |-> [c \in 1..EVColumns(t) |-> 300]], widths |-> [k \in 1..n |-> [c \in 1..EVColumns(t) |-> 900]]]

\* matEVWakeDeficits.fill(0.0), matEVWakeWidths.fill(0.0)
EVZero(t, n) == [deficits |-> [k \in 1..n |-> [c \in 1..EVColumns(t) |-> 0]], widths |-> [k \in 1..n |-> [c \in 1..EVColumns(t) |-> 0]]]

\* the value of a row at an axial distance (in radii) past the first
\* station: lower column, upper column and the weight of the upper one
EVStation(t, axialRadii) ==
    LET past == axialRadii - 2 * MIN_DIAM_EV
        cell == 2 * t.m_dAxialResolution
    IN [past |-> past, lower |-> past \div cell, upper |-> past \div cell + 1,
        weight |-> ((past % cell) * Milli) \div cell]

EVBetween(row, s) == FAdd(FDiv(FMul(row[s.lower + 1], Milli - s.weight), Milli), FDiv(FMul(row[s.upper + 1], s.weight), Milli))

\* get_EV_wake_width, in millimetres
get_EV_wake_width(t, mats, iUpwindTurbine, axialRadii) ==
    LET s == EVStation(t, axialRadii)
    IN IF s.past < 0 THEN FMul(t.m_dRotorDiameter, mats.widths[iUpwindTurbine][1])
       ELSE IF s.upper >= EVColumns(t) THEN 0
       ELSE FMul(t.m_dRotorDiameter, max_of(Milli, EVBetween(mats.widths[iUpwindTurbine], s)))

\* get_EV_velocity_deficit
get_EV_velocity_deficit(t, mats, iUpwindTurbine, axialRadii) ==
    LET s == EVStation(t, axialRadii)
    IN IF s.past < 0 THEN FMul(t.m_dRotorDiameter, mats.deficits[iUpwindTurbine][1])
       ELSE IF s.upper >= EVColumns(t) THEN 0
       ELSE EVBetween(mats.deficits[iUpwindTurbine], s)

\* exp(-3.56 y^2 / width^2), y and the width in millimetres
EVProfile(y, dWidth) ==
    IF dWidth = NaN THEN NaN
    ELSE IF dWidth = PInf THEN Milli
    ELSE LET wd == max_of(1, ((dWidth \div 100) * (dWidth \div 100)) \div 100)
         IN ExpNegMilli((((TDiv(y, 100) * TDiv(y, 100)) \div 10) * 356) \div wd)

\* the sum over the sample points across the rotor, from k on
RECURSIVE EVSamples(_, _, _, _, _)
EVSamples(t, dDef, dWidth, crossMM, k) ==
    IF k > 25 THEN 0
    ELSE LET y == crossMM - (t.m_dRotorDiameter * Milli) \div 2 + k * ((t.m_dRotorDiameter * Milli) \div 25)
         IN FAdd(FDiv(FMul(dDef, EVProfile(y, dWidth)), Milli), EVSamples(t, dDef, dWidth, crossMM, k + 1))

\* wake_deficit_EV: distances in radii
wake_deficit_EV(t, mats, iUpwindTurbine, crossRadii, axialRadii) ==
    LET dDef == get_EV_velocity_deficit(t, mats, iUpwindTurbine, axialRadii)
    IN IF FLe(dDef, 0) THEN 0
       ELSE FDiv(EVSamples(t, dDef, get_EV_wake_width(t, mats, iUpwindTurbine, axialRadii),
                           (crossRadii * t.m_dRotorDiameter * Milli) \div 2, 0), 26)

\* calc_EV_added_turbulence_intensity: the log of the axial distance in
\* diameters is minus infinity at distance 0
calc_EV_added_turbulence_intensity(Ct, axialRadii) ==
    IF axialRadii = 0 THEN max_of(0, FMul(Ct, PInf))
    ELSE max_of(0, TDiv(Ct * (Milli - TDiv(400 * (LnMilli(axialRadii) - 693), Milli)), 7 * Milli))

\* calc_EV_total_turbulence_intensity
calc_EV_total_turbulence_intensity(ambientTI, additionalTI, Uo, Uw, partial) ==
    LET f == FDiv(FMul(FSqrt(max_of(0, FAdd(FMul(ambientTI, ambientTI), FMul(additionalTI, additionalTI)))), Uo), Uw)
    IN IF FLe(Uw, 0) THEN ambientTI
       ELSE FAdd(FDiv(FMul(FSub(Milli, partial), ambientTI), Milli), FDiv(FMul(partial, f), Milli))

\* simple_intersect: the share of the rotor inside the wake, lengths in
\* millimetres
simple_intersect(dist, dRadiusTurbine, dRadiusWake) ==
    IF FLt(dist, 0) \/ FLt(dRadiusTurbine, 0) \/ FLt(dRadiusWake, 0) THEN 0
    ELSE IF FGt(dist, FAdd(dRadiusTurbine, dRadiusWake)) THEN 0
    ELSE IF FGe(dRadiusWake, dist + dRadiusTurbine) THEN Milli
    ELSE min_of(Milli, max_of(0, FDiv(FMul(FSub(FAdd(dRadiusTurbine, dRadiusWake), dist), Milli), 2 * dRadiusTurbine)))

\* the filter function F at x diameters (x in thousandths)
EVFilter(t, x) ==
    IF x >= 5500 \/ ~t.m_bFilter THEN Milli
    ELSE IF x < 4500 THEN 650 - 10 * CubeRootCenti(((4500 - x) * Milli) \div 23320)
    ELSE 650 + 10 * CubeRootCenti(((x - 4500) * Milli) \div 23320)

\* the wake width sqrt(3.56 Ct / (8 Dm (1 - 0.5 Dm)))
EVWidth(Ct, Dm) ==
    LET den == FMul(Dm, Milli - TDiv(Dm, 2))
    IN IF Dm = NaN THEN NaN
       ELSE IF den = 0 THEN PInf
       ELSE IF den < 0 THEN NaN
       ELSE SqrtMilli((445 * Ct * Milli) \div den)

\* the marching loop of fill_turbine_wake_arrays_for_EV from column j on
RECURSIVE EVMarch(_, _, _, _, _, _, _, _, _)
EVMarch(t, mats, i, Ct, TI, far, j, u, st) ==
    LET x == MIN_DIAM_EV * Milli + j * t.m_dAxialResolution * Milli
        F == EVFilter(t, x)
        Km == (F * 16 * TI) \div 10000000
        E == FAdd(FDiv(FMul(FDiv(FMul((F * 15) \div Milli, st.Bw), Milli), st.Dm), Milli), Km)
        usq == FDiv(FMul(u, u), Milli)
        poly == FAdd(FSub(FSub(FDiv(FMul(usq, u), Milli), usq), u), Milli)
        dUdX == FDiv(FMul(FMul(16, poly), E), FDiv(FMul(u, Ct), Milli))
        u1 == FAdd(u, FMul(dUdX, t.m_dAxialResolution))
        Dm == FSub(Milli, u1)
        Bw == EVWidth(Ct, Dm)
        mats1 == [mats EXCEPT !.deficits[i][j + 2] = Dm, !.widths[i][j + 2] = Bw]
    IN IF j >= EVColumns(t) - 1 THEN mats
       ELSE IF FLe(Dm, t.m_dMinDeficit) \/ x > (far + t.m_dAxialResolution) * Milli \/ j >= EVColumns(t) - 2
       THEN mats1
       ELSE EVMarch(t, mats1, i, Ct, TI, far, j + 1, u1, [Dm |-> Dm, Bw |-> Bw])

\* fill_turbine_wake_arrays_for_EV: row iTurbineNumber of both matrices
fill_turbine_wake_arrays_for_EV(t, mats, iTurbineNumber, dAmbientVelocity, dVelocityAtTurbine, dPower, dThrustCoeffIn, dTurbulenceIntensityIn, dMetersToFurthestDownwindTurbine) ==
    LET dThrustCoeff == max_of(t.m_dMinThrustCoeff, min_of(999, dThrustCoeffIn))
        dTurbulenceIntensity == min_of(dTurbulenceIntensityIn, 50 * Milli)
        Dm0 == max_of(0, dThrustCoeff - 50 - ((16 * dThrustCoeff - 500) * dTurbulenceIntensity) \div 1000000)
        Uc == dVelocityAtTurbine - (Dm0 * dVelocityAtTurbine) \div Milli
        Dmi == ((dAmbientVelocity - Uc) * Milli) \div dAmbientVelocity
        Bw == EVWidth(dThrustCoeff, Dmi)
        mats0 == [mats EXCEPT !.deficits[iTurbineNumber][1] = Dmi, !.widths[iTurbineNumber][1] = Bw]
    IN IF dPower <= 0 THEN mats
       ELSE IF dThrustCoeffIn <= 0 THEN mats
       ELSE IF Dm0 <= 0 THEN mats
       ELSE EVMarch(t, mats0, iTurbineNumber, dThrustCoeff, dTurbulenceIntensity,
                    dMetersToFurthestDownwindTurbine, 0, Milli - Dmi, [Dm |-> Dmi, Bw |-> Bw])

\* one pass of the inner loop of wake_calculations_EddyViscosity_Simple:
\* the wake of the upwind turbine j at turbine i, read from row j of the
\* matrices; acc holds the largest deficit and the largest total turbulence
EVUpwindPass(t, mats, w, pos, i, j, acc) ==
    LET axial == Abs(pos[i].d - pos[j].d)
        radial == Abs(pos[i].c - pos[j].c)
        dWakeRadiusMeters == get_EV_wake_width(t, mats, j, axial)
        dDef == wake_deficit_EV(t, mats, j, radial, axial)
        dWindSpeedWaked == FDiv(FMul(w.adWindSpeed[1], FSub(Milli, dDef)), Milli)
        Iadd == calc_EV_added_turbulence_intensity(w.Thrust[j], axial)
        dFractionOfOverlap == simple_intersect((radial * t.m_dRotorDiameter * Milli) \div 2, (t.m_dRotorDiameter * Milli) \div 2, dWakeRadiusMeters)
        total == calc_EV_total_turbulence_intensity(w.aTurbulence_intensity[i], Iadd, w.adWindSpeed[1], dWindSpeedWaked, dFractionOfOverlap)
    IN IF FLe(dWakeRadiusMeters, 0) THEN acc
       ELSE [dDeficit |-> max_of(acc.dDeficit, dDef), dTotalTI |-> max_of(acc.dTotalTI, total)]

\* the inner loop over the upwind turbines j < i
RECURSIVE EVUpwind(_, _, _, _, _, _, _)
EVUpwind(t, mats, w, pos, i, j, acc) ==
    IF j >= i THEN acc
    ELSE EVUpwind(t, mats, w, pos, i, j + 1, EVUpwindPass(t, mats, w, pos, i, j, acc))

\* the end of the pass of the outer loop for turbine i: its wind speed,
\* turbulence intensity, power, thrust and efficiency, then its row of the
\* matrices
EVTurbine(t, air_density, pos, w, mats, i, acc) ==
    LET speed == FDiv(FMul(w.adWindSpeed[1], FSub(Milli, acc.dDeficit)), Milli)
        tp == turbine_power(t, speed, air_density)
        w0 == [w EXCEPT !.Power[i] = tp.fTurbineOutput]
        w1 == WithTurbine(w0, i, speed, tp, acc.dTotalTI)
    IN [w |-> w1,
        mats |-> fill_turbine_wake_arrays_for_EV(t, mats, i, w1.adWindSpeed[1], speed, tp.fTurbineOutput,
                     tp.fThrustCoefficient, acc.dTotalTI, Abs(pos[Len(pos)].d - pos[i].d) * (t.m_dRotorDiameter \div 2))]

\* wake_calculations_EddyViscosity_Simple from turbine i on; the result
\* carries the matrices
RECURSIVE wake_calculations_EddyViscosity_Simple(_, _, _, _, _, _)
wake_calculations_EddyViscosity_Simple(t, air_density, pos, w, mats, i) ==
    IF i > Len(pos) THEN [w |-> w, mats |-> mats]
    ELSE LET acc == EVUpwind(t, mats, w, pos, i, 1, [dDeficit |-> 0, dTotalTI |-> w.aTurbulence_intensity[i]])
             r == EVTurbine(t, air_density, pos, w, mats, i, acc)
         IN wake_calculations_EddyViscosity_Simple(t, air_density, pos, r.w, r.mats, i + 1)

\* the largest farm of the runs with a wake model: it stands in the count
\* check of wind_power for MAX_WIND_TURBINES, so that a refused count is
\* among the runs
MaxTurbines == 3

WakeModels == {"PAT_QUINLAN_WAKE_MODEL", "PARK_WAKE_MODEL", "SIMPLE_EDDY_VISCOSITY_WAKE_MODEL", "OLD_PQ"}

\* Eff[0] = (fTurbine_output < 1.0) ? 0.0 : 100.0, 1 kW being 10 units
UpwindEfficiency(fTurbine_output) == IF fTurbine_output < 10 THEN 0 ELSE 100

\* the downwind and crosswind coordinates of the turbines in radii, measured
\* from the smallest of each, in input order with the turbine ids
FarmPositions(t, farm, fWindDirectionDegrees) ==
    LET n == farm.m_iNumberOfTurbinesInFarm
        raw == [i \in 1..n |-> coordtrans(farm.m_adYCoords[i], farm.m_adXCoords[i], fWindDirectionDegrees)]
        Dmin == SeqMin([i \in 1..n |-> raw[i].d], n)
        Cmin == SeqMin([i \in 1..n |-> raw[i].c], n)
    IN [i \in 1..n |-> [d |-> (2 * (raw[i].d - Dmin)) \div t.m_dRotorDiameter,
                        c |-> (2 * (raw[i].c - Cmin)) \div t.m_dRotorDiameter, id |-> i - 1]]

\* the switch on the wake model; the eddy-viscosity model starts from
\* matrices filled with zeros
RunWakeModel(t, farm, air_density, pos, w) ==
    CASE farm.m_iWakeModelChoice = "PAT_QUINLAN_WAKE_MODEL" ->
            [w |-> wake_calculations_pat_quinlan_mod(t, air_density, pos, w, 2), mats |-> farm.mats]
      [] farm.m_iWakeModelChoice = "PARK_WAKE_MODEL" ->
            [w |-> wake_calculations_Park(t, air_density, pos, w, 2), mats |-> farm.mats]
      [] farm.m_iWakeModelChoice = "SIMPLE_EDDY_VISCOSITY_WAKE_MODEL" ->
            wake_calculations_EddyViscosity_Simple(t, air_density, pos, w, EVZero(t, Len(pos)), 1)
      [] OTHER ->
            [w |-> wake_calculations_pat_quinlan_old(t, air_density, pos, w, 1), mats |-> farm.mats]

\* wind_power: out holds what the caller's farm power and output arrays
\* held before the call
wind_power(t, farm, in, out) ==
    LET n == farm.m_iNumberOfTurbinesInFarm
        fAirDensity == AirDensityRatio(in.dAirPressureAtm, in.TdryC)
        tp == turbine_power(t, in.fWindSpeed, fAirDensity)
        pos == SortByDistance(FarmPositions(t, farm, in.fWindDirectionDegrees), 2)
        w0 == [Power |-> [i \in 1..n |-> IF i = 1 THEN tp.fTurbineOutput ELSE 0],
               Thrust |-> [i \in 1..n |-> IF i = 1 THEN tp.fThrustCoefficient ELSE 0],
               Eff |-> [i \in 1..n |-> IF i = 1 THEN UpwindEfficiency(tp.fTurbineOutput) ELSE 0],
               adWindSpeed |-> [i \in 1..n |-> in.fWindSpeed],
               aTurbulence_intensity |-> [i \in 1..n |-> t.m_dTurbulenceIntensity]]
        Resorted(wk) ==
            LET rows == SortById([i \in 1..n |-> [p |-> wk.w.Power[i], t |-> wk.w.Thrust[i], e |-> wk.w.Eff[i],
                                                  w |-> wk.w.adWindSpeed[i], b |-> wk.w.aTurbulence_intensity[i],
                                                  id |-> pos[i].id]], 2)
            IN [value |-> n,
                out |-> [FarmP |-> SeqSum([i \in 1..n |-> wk.w.Power[i]], n),
                         Power |-> [i \in 1..n |-> rows[i].p], Thrust |-> [i \in 1..n |-> rows[i].t],
                         Eff |-> [i \in 1..n |-> rows[i].e], adWindSpeed |-> [i \in 1..n |-> rows[i].w],
                         aTurbulence_intensity |-> [i \in 1..n |-> rows[i].b]],
                m_sErrDetails |-> "", wake |-> farm.m_iWakeModelChoice, mats |-> wk.mats,
                wt_id |-> [i \in 1..n |-> rows[i].id], sorted_id |-> [i \in 1..n |-> pos[i].id], pos |-> pos]
    IN IF n > MaxTurbines \/ n < 1
       THEN [value |-> 0, out |-> out, wake |-> "none", mats |-> farm.mats, wt_id |-> <<>>, sorted_id |-> <<>>,
             m_sErrDetails |-> "The number of wind turbines was greater than the maximum allowed in the wake model."]
       ELSE IF n < 2
       THEN [value |-> 1, out |-> [out EXCEPT !.FarmP = tp.fTurbineOutput], m_sErrDetails |-> "", wake |-> "none",
             mats |-> farm.mats, wt_id |-> <<0>>, sorted_id |-> <<0>>]
       ELSE IF tp.fTurbineOutput <= 0
       THEN [value |-> n, out |-> [out EXCEPT !.FarmP = 0], m_sErrDetails |-> "", wake |-> "none",
             mats |-> farm.mats, wt_id |-> [i \in 1..n |-> i - 1], sorted_id |-> [i \in 1..n |-> i - 1]]
       ELSE IF farm.m_iWakeModelChoice \notin WakeModels
       THEN [value |-> 0, out |-> [FarmP |-> out.FarmP] @@ w0, wake |-> "none", mats |-> farm.mats,
             wt_id |-> [i \in 1..n |-> pos[i].id], sorted_id |-> [i \in 1..n |-> pos[i].id],
             m_sErrDetails |-> "Unknown wake model encountered in wind_power_calculator::wind_power."]
       ELSE Resorted(RunWakeModel(t, farm, fAirDensity, pos, w0))

\* one call of wind_power
WindPowerCall ==
    /\ pc = "wind_call"
    /\ ret' = [call |-> "wind_power"] @@ wind_power(arg.turbine, arg.farm, arg.in, arg.out)
    /\ pc' = "wind_done"
    /\ UNCHANGED <<error_code, env, ms_des_par, ms_od_par, m_last, m_od, loc, perf, opt, arg, obs>>

\* what the caller's arrays hold before the call: zeros, or the values of
\* an earlier hour
Stale == 77

CallerArrays(n, v) ==
    [FarmP |-> v, Power |-> [i \in 1..n |-> v], Thrust |-> [i \in 1..n |-> v], Eff |-> [i \in 1..n |-> v],
     adWindSpeed |-> [i \in 1..n |-> v], aTurbulence_intensity |-> [i \in 1..n |-> v]]

\* two layouts for each turbine count: a row along the north-south axis in
\* mixed order, and two columns 40 m apart with pairs at the same northing
Layouts(n) ==
    {[xs |-> [i \in 1..n |-> 0], ys |-> [i \in 1..n |-> 100 * ((2 * i) % 5)]],
     [xs |-> [i \in 1..n |-> 40 * (i % 2)], ys |-> [i \in 1..n |-> 100 * (i \div 2)]]}

WindTurbines == {WindTurbine(0, 2, 0), WindTurbine(2000, 1, 0), WindTurbine(0, 2, 600)}

InitWind ==
    /\ InitCommon
    /\ pc = "wind_call"
    /\ env = NoFail
    /\ ms_des_par = NoDesPar
    /\ ms_od_par = NoOdPar
    /\ perf = perf0
    /\ opt = NoOpt
    /\ \E n \in 0..(MaxTurbines + 1), choice \in WakeModels \cup {"unknown"}, t \in WindTurbines,
          v \in {20, 80, 130, 300}, dir \in {0, 90, 180}, T \in {15, 35}, prior \in {0, Stale} :
          \E layout \in Layouts(n) :
             arg = [call |-> "wind_power", turbine |-> t,
                    farm |-> [m_iNumberOfTurbinesInFarm |-> n, m_iWakeModelChoice |-> choice,
                              m_adXCoords |-> layout.xs, m_adYCoords |-> layout.ys,
                              mats |-> EVZero(t, n)],
                    in |-> [fWindSpeed |-> v, fWindDirectionDegrees |-> dir, dAirPressureAtm |-> Milli,
                            TdryC |-> T],
                    out |-> CallerArrays(n, prior)]

NextWind == WindPowerCall

SpecWind == InitWind /\ [][NextWind]_vars

\* ------------------------------------------------------------------------
\* wind_power run twice on one farm: with the turbines in the given order
\* and with the same turbines given in another order

\* the orders of n turbines: Order[k] is the turbine given as input k of
\* the second run
Orders(n) == {f \in [1..n -> 1..n] : \A a, b \in 1..n : a # b => f[a] # f[b]}

Reordered(farm, order) ==
    [farm EXCEPT !.m_adXCoords = [k \in 1..farm.m_iNumberOfTurbinesInFarm |-> farm.m_adXCoords[order[k]]],
                 !.m_adYCoords = [k \in 1..farm.m_iNumberOfTurbinesInFarm |-> farm.m_adYCoords[order[k]]]]

WindPowerFirstRun ==
    /\ pc = "order_first"
    /\ ret' = [call |-> "wind_power", first |-> wind_power(arg.turbine, arg.farm, arg.in, arg.out)]
    /\ pc' = "order_second"
    /\ UNCHANGED <<error_code, env, ms_des_par, ms_od_par, m_last, m_od, loc, perf, opt, arg, obs>>

WindPowerSecondRun ==
    /\ pc = "order_second"
    /\ ret' = [call |-> "wind_power", first |-> ret.first,
               second |-> wind_power(arg.turbine, Reordered(arg.farm, arg.order), arg.in, arg.out)]
    /\ pc' = "order_done"
    /\ UNCHANGED <<error_code, env, ms_des_par, ms_od_par, m_last, m_od, loc, perf, opt, arg, obs>>

InitOrder ==
    /\ InitCommon
    /\ pc = "order_first"
    /\ env = NoFail
    /\ ms_des_par = NoDesPar
    /\ ms_od_par = NoOdPar
    /\ perf = perf0
    /\ opt = NoOpt
    /\ \E n \in 2..MaxTurbines, choice \in WakeModels, t \in WindTurbines,
          v \in {45, 80, 130}, dir \in {0, 90, 180} :
          \E layout \in Layouts(n), order \in Orders(n) :
             arg = [call |-> "wind_power", turbine |-> t, order |-> order,
                    farm |-> [m_iNumberOfTurbinesInFarm |-> n, m_iWakeModelChoice |-> choice,
                              m_adXCoords |-> layout.xs, m_adYCoords |-> layout.ys,
                              mats |-> EVZero(t, n)],
                    in |-> [fWindSpeed |-> v, fWindDirectionDegrees |-> dir, dAirPressureAtm |-> Milli,
                            TdryC |-> 15],
                    out |-> CallerArrays(n, 0)]

NextOrder == WindPowerFirstRun \/ WindPowerSecondRun

SpecOrder == InitOrder /\ [][NextOrder]_vars

\* ------------------------------------------------------------------------
\* wind_power, the turbine ids: the count check, the id array, the sort by
\* downwind distance and the sort of the outputs back into id order, one
\* pass of each sort loop at a time.  The wake model is left out: the value
\* it gives the turbine at a sorted position is stood for by the crosswind
\* coordinate at that position, which differs from turbine to turbine, so
\* that each output entry tells which turbine it belongs to.

\* the largest farm the count check admits (MAX_WIND_TURBINES, 300 in
\* lib_windwatts.h)
MAX_WIND_TURBINES == 300

\* wt_id is an array of unsigned char
IdModulus == 256

\* wt_id[i] = (unsigned char)i
TurbineId(i) == i % IdModulus

\* the downwind distances of n turbines in input order: in upwind order
\* already, the last turbine the most upwind, neighbours swapped, and all
\* at one distance
DistancePatterns == {"sorted", "last_first", "swapped", "level"}

DownwindOf(pattern, n, k) ==
    CASE pattern = "sorted" -> k
      [] pattern = "last_first" -> IF k = n THEN 0 ELSE k
      [] pattern = "swapped" -> IF k % 2 = 1 THEN k + 1 ELSE k - 1
      [] OTHER -> 0

\* the crosswind coordinate of the turbine given as input k
CrosswindOf(k) == 1000 + k

\* the loop variables and arrays of a call
IdsRet == [call |-> "wind_power", value |-> 0, rows |-> <<>>, j |-> 0, i |-> 0, item |-> <<>>, sorted_id |-> <<>>]

\* the count check, the id array and the coordinates (l.50-122)
IdsSetUp ==
    /\ pc = "ids_call"
    /\ LET n == arg.m_iNumberOfTurbinesInFarm
       IN IF n > MAX_WIND_TURBINES \/ n < 1
          THEN ret' = [IdsRet EXCEPT !.value = 0] /\ pc' = "ids_done"
          ELSE IF n < 2
          THEN ret' = [IdsRet EXCEPT !.value = 1] /\ pc' = "ids_done"
          ELSE /\ ret' = [IdsRet EXCEPT !.value = n, !.j = 2,
                                         !.rows = [k \in 1..n |-> [d |-> DownwindOf(arg.pattern, n, k),
                                                                   c |-> CrosswindOf(k), id |-> TurbineId(k - 1)]]]
               /\ pc' = "ids_by_distance"
    /\ UNCHANGED <<error_code, env, ms_des_par, ms_od_par, m_last, m_od, loc, perf, opt, arg, obs>>

\* the loop of l.131-149, a step at a time: pick out element j
DistanceSortPick ==
    /\ pc = "ids_by_distance"
    /\ ret.j <= Len(ret.rows)
    /\ ret' = [ret EXCEPT !.item = ret.rows[ret.j], !.i = ret.j]
    /\ pc' = "ids_place_by_distance"
    /\ UNCHANGED <<error_code, env, ms_des_par, ms_od_par, m_last, m_od, loc, perf, opt, arg, obs>>

\* while (i > 0 && aDistanceDownwind[i-1] > d): move the row up, or insert
\* the element and go on to the next
DistanceSortPlace ==
    /\ pc = "ids_place_by_distance"
    /\ IF ret.i > 1 /\ ret.rows[ret.i - 1].d > ret.item.d
       THEN /\ ret' = [ret EXCEPT !.rows[ret.i] = ret.rows[ret.i - 1], !.i = ret.i - 1]
            /\ pc' = pc
       ELSE /\ ret' = [ret EXCEPT !.rows[ret.i] = ret.item, !.j = ret.j + 1]
            /\ pc' = "ids_by_distance"
    /\ UNCHANGED <<error_code, env, ms_des_par, ms_od_par, m_last, m_od, loc, perf, opt, arg, obs>>

\* the wake model and the farm power (l.152-179): the output of sorted
\* position i is the value of the turbine whose coordinates are there
WakeModelRun ==
    /\ pc = "ids_by_distance"
    /\ ret.j > Len(ret.rows)
    /\ ret' = [ret EXCEPT !.rows = [i \in 1..Len(ret.rows) |-> [p |-> ret.rows[i].c, id |-> ret.rows[i].id]],
                          !.j = 2, !.sorted_id = [i \in 1..Len(ret.rows) |-> ret.rows[i].id]]
    /\ pc' = "ids_by_id"
    /\ UNCHANGED <<error_code, env, ms_des_par, ms_od_par, m_last, m_od, loc, perf, opt, arg, obs>>

\* the loop of l.184-211, a step at a time: pick out element j
IdSortPick ==
    /\ pc = "ids_by_id"
    /\ ret.j <= Len(ret.rows)
    /\ ret' = [ret EXCEPT !.item = ret.rows[ret.j], !.i = ret.j]
    /\ pc' = "ids_place_by_id"
    /\ UNCHANGED <<error_code, env, ms_des_par, ms_od_par, m_last, m_od, loc, perf, opt, arg, obs>>

\* while (i > 0 && wt_id[i-1] > wid): move the row up, or insert the
\* element and go on to the next
IdSortPlace ==
    /\ pc = "ids_place_by_id"
    /\ IF ret.i > 1 /\ ret.rows[ret.i - 1].id > ret.item.id
       THEN /\ ret' = [ret EXCEPT !.rows[ret.i] = ret.rows[ret.i - 1], !.i = ret.i - 1]
            /\ pc' = pc
       ELSE /\ ret' = [ret EXCEPT !.rows[ret.i] = ret.item, !.j = ret.j + 1]
            /\ pc' = "ids_by_id"
    /\ UNCHANGED <<error_code, env, ms_des_par, ms_od_par, m_last, m_od, loc, perf, opt, arg, obs>>

\* return m_iNumberOfTurbinesInFarm (l.213)
IdsReturn ==
    /\ pc = "ids_by_id"
    /\ ret.j > Len(ret.rows)
    /\ pc' = "ids_done"
    /\ UNCHANGED <<ret, error_code, env, ms_des_par, ms_od_par, m_last, m_od, loc, perf, opt, arg, obs>>

\* the turbine counts of the runs: around the ends of the admitted range
\* and around the number of values of an id
IdCounts == {0, 1, 2, 3, 4, IdModulus - 1, IdModulus, IdModulus + 1, MAX_WIND_TURBINES, MAX_WIND_TURBINES + 1}

InitIds ==
    /\ InitCommon
    /\ pc = "ids_call"
    /\ env = NoFail
    /\ ms_des_par = NoDesPar
    /\ ms_od_par = NoOdPar
    /\ perf = perf0
    /\ opt = NoOpt
    /\ \E n \in IdCounts, pattern \in DistancePatterns :
          arg = [call |-> "wind_power", m_iNumberOfTurbinesInFarm |-> n, pattern |-> pattern]

NextIds == IdsSetUp \/ DistanceSortPick \/ DistanceSortPlace \/ WakeModelRun \/ IdSortPick \/ IdSortPlace \/ IdsReturn

SpecIds == InitIds /\ [][NextIds]_vars

\* ------------------------------------------------------------------------
\* wind_power with the eddy-viscosity wake model, a pass of its loops at a
\* time.  ret holds the loop variables, the output arrays in sorted order
\* and the two matrices; obs tells the last access to the matrices and
\* keeps the rows that fill_turbine_wake_arrays_for_EV was called for.

EVObs(step, row, by, filled) == [step |-> step, row |-> row, by |-> by, filled |-> filled, outcome |-> "none"]

\* wind_power up to the call of the wake model (l.50-149) and the start of
\* wake_calculations_EddyViscosity_Simple (l.357-361): both matrices are
\* filled with zeros.  A farm of one turbine and a freestream without power
\* return before the wake model and leave the matrices alone.
EVBegin ==
    /\ pc = "ev_call"
    /\ LET t == arg.turbine
           n == arg.farm.m_iNumberOfTurbinesInFarm
           fAirDensity == AirDensityRatio(arg.in.dAirPressureAtm, arg.in.TdryC)
           tp == turbine_power(t, arg.in.fWindSpeed, fAirDensity)
           pos == SortByDistance(FarmPositions(t, arg.farm, arg.in.fWindDirectionDegrees), 2)
           w0 == [Power |-> [i \in 1..n |-> IF i = 1 THEN tp.fTurbineOutput ELSE 0],
                  Thrust |-> [i \in 1..n |-> IF i = 1 THEN tp.fThrustCoefficient ELSE 0],
                  Eff |-> [i \in 1..n |-> IF i = 1 THEN UpwindEfficiency(tp.fTurbineOutput) ELSE 0],
                  adWindSpeed |-> [i \in 1..n |-> arg.in.fWindSpeed],
                  aTurbulence_intensity |-> [i \in 1..n |-> t.m_dTurbulenceIntensity]]
       IN IF n < 2 \/ tp.fTurbineOutput <= 0
          THEN /\ ret' = [call |-> "wind_power", value |-> n, mats |-> arg.farm.mats]
               /\ obs' = EVObs("none", 0, 0, {})
               /\ pc' = "ev_done"
          ELSE /\ ret' = [call |-> "wind_power", value |-> n, air_density |-> fAirDensity, pos |-> pos, w |-> w0,
                          mats |-> EVZero(t, n), i |-> 1, j |-> 1,
                          acc |-> [dDeficit |-> 0, dTotalTI |-> w0.aTurbulence_intensity[1]]]
               /\ obs' = EVObs("zero", 0, 0, {})
               /\ pc' = "ev_turbine"
    /\ UNCHANGED <<error_code, env, ms_des_par, ms_od_par, m_last, m_od, loc, perf, opt, arg>>

\* a pass of the inner loop (l.368-391): row j is read for turbine i
EVReadRow ==
    /\ pc = "ev_turbine"
    /\ ret.j < ret.i
    /\ ret' = [ret EXCEPT !.acc = EVUpwindPass(arg.turbine, ret.mats, ret.w, ret.pos, ret.i, ret.j, ret.acc),
                          !.j = ret.j + 1]
    /\ obs' = EVObs("read", ret.j, ret.i, obs.filled)
    /\ UNCHANGED <<pc, error_code, env, ms_des_par, ms_od_par, m_last, m_od, loc, perf, opt, arg>>

\* the end of a pass of the outer loop (l.392-407): the outputs of turbine
\* i, then fill_turbine_wake_arrays_for_EV for row i; after the last
\* turbine the call returns
EVFillRow ==
    /\ pc = "ev_turbine"
    /\ ret.j >= ret.i
    /\ LET r == EVTurbine(arg.turbine, ret.air_density, ret.pos, ret.w, ret.mats, ret.i, ret.acc)
           last == ret.i >= Len(ret.pos)
       IN /\ ret' = [ret EXCEPT !.w = r.w, !.mats = r.mats, !.i = ret.i + 1, !.j = 1,
                                !.acc = [dDeficit |-> 0,
                                         dTotalTI |-> IF last THEN 0 ELSE r.w.aTurbulence_intensity[ret.i + 1]]]
          /\ pc' = IF last THEN "ev_done" ELSE "ev_turbine"
    /\ obs' = EVObs(IF ret.i \in obs.filled THEN "refill" ELSE "fill", ret.i, ret.i, obs.filled \cup {ret.i})
    /\ UNCHANGED <<error_code, env, ms_des_par, ms_od_par, m_last, m_od, loc, perf, opt, arg>>

InitEV ==
    /\ InitCommon
    /\ pc = "ev_call"
    /\ env = NoFail
    /\ ms_des_par = NoDesPar
    /\ ms_od_par = NoOdPar
    /\ perf = perf0
    /\ opt = NoOpt
    /\ \E n \in 1..MaxTurbines, t \in WindTurbines, v \in {20, 45, 80, 130}, dir \in {0, 90, 180},
          earlier \in BOOLEAN :
          \E layout \in Layouts(n) :
             arg = [call |-> "wind_power", turbine |-> t,
                    farm |-> [m_iNumberOfTurbinesInFarm |-> n,
                              m_iWakeModelChoice |-> "SIMPLE_EDDY_VISCOSITY_WAKE_MODEL",
                              m_adXCoords |-> layout.xs, m_adYCoords |-> layout.ys,
                              mats |-> IF earlier THEN EVStale(t, n) ELSE EVZero(t, n)],
                    in |-> [fWindSpeed |-> v, fWindDirectionDegrees |-> dir, dAirPressureAtm |-> Milli,
                            TdryC |-> 15],
                    out |-> CallerArrays(n, 0)]

NextEV == EVBegin \/ EVReadRow \/ EVFillRow

SpecEV == InitEV /\ [][NextEV]_vars

\* ------------------------------------------------------------------------
\* optimal_off_design and optimal_off_design_core.  The optimizer calls
\* off_design_point_value at the starting vector and then at vectors of its
\* choice, at most MaxEvals times in all.

\* the number of free variables (index)
OdFreeIndex(op) ==
    (IF op.m_fixed_P_mc_in THEN 0 ELSE 1) + (IF op.m_fixed_recomp_frac THEN 0 ELSE 1)
    + (IF op.m_fixed_N_mc THEN 0 ELSE 1) + (IF op.m_fixed_N_t THEN 0 ELSE 1)

\* the starting vector x: the guesses of the free variables
OdGuessVector(op) ==
    (IF op.m_fixed_P_mc_in THEN <<>> ELSE <<op.m_P_mc_in_guess>>)
    \o (IF op.m_fixed_recomp_frac THEN <<>> ELSE <<op.m_recomp_frac_guess>>)
    \o (IF op.m_fixed_N_mc THEN <<>> ELSE <<op.m_N_mc_guess>>)
    \o (IF op.m_fixed_N_t THEN <<>> ELSE <<op.m_N_t_guess>>)

\* the members of ms_od_par that optimal_off_design_core sets at its start
OdKnownValues(op, par) ==
    [par EXCEPT !.m_T_mc_in = op.m_T_mc_in, !.m_T_t_in = op.m_T_t_in,
                !.m_N_sub_hxrs = op.m_N_sub_hxrs, !.m_tol = op.m_tol]

\* optimal_off_design up to the optimizer; with no free variable
\* optimal_off_design_core has nothing more to do and optimal_off_design
\* returns its opt_od_error_code, still 0
OptimalOffDesignStart ==
    /\ pc = "ood_call"
    /\ ms_od_par' = OdKnownValues(opt.ms_opt_od_par, ms_od_par)
    /\ IF OdFreeIndex(opt.ms_opt_od_par) > 0
       THEN /\ opt' = [opt EXCEPT !.m_W_dot_net_max = 0, !.caller = "optimizer", !.evals = 0]
            /\ pc' = "ood_eval"
            /\ ret' = ret
            /\ error_code' = error_code
       ELSE /\ opt' = [opt EXCEPT !.m_W_dot_net_max = 0, !.caller = "optimal_off_design", !.evals = 0]
            /\ pc' = "ood_done"
            /\ ret' = [call |-> "optimal_off_design", error_code |-> 0, core_called |-> FALSE,
                       opt_od_error_code |-> 0]
            /\ error_code' = 0
    /\ UNCHANGED <<env, ms_des_par, m_last, m_od, loc, perf, arg, obs>>

\* the optimizer calls the objective through nlopt_cb_opt_od
OdOptimizerEvaluate ==
    /\ pc = "ood_eval"
    /\ opt.evals < MaxEvals
    /\ \E x \in IF opt.evals = 0 THEN {OdGuessVector(opt.ms_opt_od_par)} ELSE OdVectors(opt.ms_opt_od_par) :
          arg' = [call |-> "off_design_point_value", x |-> x]
    /\ opt' = [opt EXCEPT !.caller = "off_design_point_value"]
    /\ pc' = "odv_call"
    /\ UNCHANGED <<error_code, env, ms_des_par, ms_od_par, m_last, m_od, loc, perf, ret, obs>>

\* the objective has returned to the optimizer
OdOptimizerResume ==
    /\ pc = "odv_done"
    /\ opt' = [opt EXCEPT !.caller = "optimizer", !.evals = opt.evals + 1]
    /\ pc' = "ood_eval"
    /\ UNCHANGED <<error_code, env, ms_des_par, ms_od_par, m_last, m_od, loc, perf, arg, ret, obs>>

\* the optimizer returns: with a best value above zero
\* optimal_off_design_core solves ms_od_par_optimal again, otherwise it
\* returns 111
OdOptimizerReturn ==
    /\ pc = "ood_eval"
    /\ opt.evals >= 1
    /\ IF FGt(opt.m_W_dot_net_max, 0)
       THEN /\ ms_od_par' = opt.ms_od_par_optimal
            /\ opt' = [opt EXCEPT !.caller = "optimal_off_design_core"]
            /\ pc' = "od_start"
            /\ ret' = ret
            /\ error_code' = error_code
       ELSE /\ ms_od_par' = ms_od_par
            /\ opt' = [opt EXCEPT !.caller = "optimal_off_design"]
            /\ pc' = "ood_done"
            /\ ret' = [call |-> "optimal_off_design", error_code |-> 111, core_called |-> FALSE,
                       opt_od_error_code |-> 0]
            /\ error_code' = 111
    /\ UNCHANGED <<env, ms_des_par, m_last, m_od, loc, perf, arg, obs>>

\* the final off_design_core call has returned: error_code is 0 or the
\* solve's code
OptimalOffDesignFinish ==
    /\ pc = "done"
    /\ opt.caller = "optimal_off_design_core"
    /\ ret' = [call |-> "optimal_off_design", error_code |-> error_code, core_called |-> TRUE,
               opt_od_error_code |-> error_code]
    /\ opt' = [opt EXCEPT !.caller = "optimal_off_design"]
    /\ pc' = "ood_done"
    /\ UNCHANGED <<error_code, env, ms_des_par, ms_od_par, m_last, m_od, loc, perf, arg, obs>>

InitOod ==
    /\ InitCommon
    /\ pc = "ood_call"
    /\ arg = NoArg
    /\ \E T_t_in \in {300, 280} : ms_od_par = [OdPar(0, 10, 1, Tol(1, 10)) EXCEPT !.m_T_t_in = T_t_in]
    /\ \E limit \in {12, 20} :
          /\ ms_des_par = [m_P_high_limit |-> limit] @@ NoDesPar
          /\ \/ env = NoFail
             \/ limit = 20 /\ env = [failSite |-> "mc.TP", failCode |-> 1, hotSite |-> "none"]
    /\ \E f \in {0, 2} : perf = OdDesign(30, 80, 80, 0, f)
    /\ \E fixed_P \in BOOLEAN, fixed_rf \in BOOLEAN, fixed_N_mc \in BOOLEAN, fixed_N_t \in BOOLEAN,
          rf_guess \in {0, 2} :
          opt = [caller |-> "optimal_off_design",
                 ms_opt_od_par |-> [m_T_mc_in |-> 40, m_T_t_in |-> 300, m_N_sub_hxrs |-> 1,
                                    m_tol |-> Tol(1, 10)]
                                   @@ OptOdPar(fixed_P, fixed_rf, fixed_N_mc, fixed_N_t, rf_guess, TRUE),
                 ms_od_par_optimal |-> NoOdPar, m_W_dot_net_max |-> 0, evals |-> 0]

NextOod ==
    \/ OptimalOffDesignStart
    \/ OdOptimizerEvaluate
    \/ OffDesignPointValueCall
    \/ OdStart
    \/ MdotIterate
    \/ OdDefineKnownStates
    \/ OdT8LoopHead
    \/ OdT9Iterate
    \/ OdT8Body
    \/ OdFinish
    \/ OffDesignPointValueReturn
    \/ OdOptimizerResume
    \/ OdOptimizerReturn
    \/ OptimalOffDesignFinish

SpecOod == InitOod /\ [][NextOod]_vars

\* ------------------------------------------------------------------------
\* target_off_design and target_off_design_core.  Pressures are in
\* twentieths of a kPa, powers and residuals in hundredths of a unit.  Each
\* off_design_core call is taken by what it hands back for the inlet
\* pressure it is given: its error code, the net power and the heat input it
\* leaves in the cycle object, and the compressor outlet pressure
\* m_pres_last[1].  The response of the cycle to the pressure is the
\* scenario of the run (env).  biggest_value and biggest_cycle, which the
\* search loop writes and nothing reads, are left out.

PressureScale == 20
max_iter_target == 100
PressureCap == 12000 * 20
last_residual_start == 123

\* 20 search intervals with the default resolution, 50 without
SearchIntervals(tar) == IF tar.m_use_default_res THEN 20 ELSE 50

\* P_guesses[i]
SearchGuess(P_low, P_high, n, i) == FAdd(P_low, FDiv(FMul(i, FSub(P_high, P_low)), n))

\* residual / m_target <= m_tol, with m_tol = num/den
RelAtMostTol(a, target, tol) ==
    IF a = NaN \/ target = NaN THEN FALSE
    ELSE IF target > 0 THEN FLe(FMul(a, tol.den), FMul(tol.num, target))
    ELSE IF target < 0 THEN FLe(FMul(tol.num, target), FMul(a, tol.den))
    ELSE FLe(FDiv(a, 0), tol.num)

\* fabs(P_high - P_low) < 0.1
IntervalTiny(P_low, P_high) == FLt(FMul(FAbs(FSub(P_high, P_low)), 10), PressureScale)

\* the response of the cycle: the solve fails at a pressure that is not a
\* positive number, above valid_to, and in the window fail_from..fail_to;
\* elsewhere the net power is linear in the pressure (gain hundredths per
\* pressure step, equal to the target midway between two steps at
\* root2 / 2); the heat input is twice the net power and the compressor
\* outlet pressure 2.5 times the inlet pressure
TarPlant(gain, root2, fail_from, fail_to) ==
    [gain |-> gain, root2 |-> root2, fail_from |-> fail_from, fail_to |-> fail_to,
     valid_to |-> 25000 * PressureScale]

OdOutcome(plant, P) ==
    IF ~IsFinite(P) \/ P <= 0 \/ P > plant.valid_to \/ (plant.fail_from <= P /\ P <= plant.fail_to)
    THEN [error_code |-> 4, W_dot_net |-> NaN, Q_dot_PHX |-> NaN, P_mc_out |-> NaN]
    ELSE LET W == FAdd(10000, FDiv(FMul(plant.gain, 2 * P - plant.root2), 2))
         IN [error_code |-> 0, W_dot_net |-> W, Q_dot_PHX |-> FMul(2, W), P_mc_out |-> (5 * P) \div 2]

TarValue(tar, out) == IF tar.m_is_target_Q THEN out.Q_dot_PHX ELSE out.W_dot_net

TarRet(code, l) == [call |-> "target_off_design", error_code |-> code, iter |-> l.iter, converged |-> l.converged]

\* the locals of target_off_design_core before the search loop, and the
\* members of ms_od_par that are known
TargetOffDesignCall ==
    /\ pc = "tar_call"
    /\ LET tar == arg.ms_tar_od_par IN
       /\ ms_od_par' = [ms_od_par EXCEPT !.m_T_mc_in = tar.m_T_mc_in, !.m_T_t_in = tar.m_T_t_in,
                                         !.m_recomp_frac = tar.m_recomp_frac, !.m_N_mc = tar.m_N_mc,
                                         !.m_N_t = tar.m_N_t, !.m_N_sub_hxrs = tar.m_N_sub_hxrs,
                                         !.m_tol = tar.m_tol]
       /\ loc' = [search_intervals |-> SearchIntervals(tar), i |-> 0,
                  lower_bound_found |-> FALSE, upper_bound_found |-> FALSE,
                  left_residual |-> NInf, right_residual |-> PInf,
                  P_low |-> tar.m_lowest_pressure, P_high |-> StdMin(tar.m_highest_pressure, PressureCap),
                  P_first |-> tar.m_lowest_pressure, P_last |-> StdMin(tar.m_highest_pressure, PressureCap),
                  P_guess |-> NaN, last_P_guess |-> NaN, last_residual |-> NaN,
                  iter |-> 0, converged |-> FALSE]
    /\ obs' = [step |-> "tar_call", P_mc_in |-> NaN, P_low |-> NaN, P_high |-> NaN, after_failure |-> FALSE, failed |-> FALSE]
    /\ pc' = "tar_search"
    /\ UNCHANGED <<error_code, env, ms_des_par, m_last, m_od, perf, opt, arg, ret>>

\* the secant / bisection loop starts from the bracket with a bisection; the
\* counter i of the search loop is gone with the loop
TarEnterSecant(l) ==
    [l EXCEPT !.P_guess = Bisect(l.P_low, l.P_high), !.last_P_guess = PInf,
              !.last_residual = last_residual_start, !.iter = 1, !.i = NaN]

\* one pass of the search loop, and what follows the loop when it ends
TarSearchIterate ==
    /\ pc = "tar_search"
    /\ LET tar == arg.ms_tar_od_par
              l == loc
              P_guess == SearchGuess(l.P_first, l.P_last, l.search_intervals, l.i)
              out == OdOutcome(env, P_guess)
              too_big == out.error_code = 0 /\ FGt(FMul(out.P_mc_out, 10), FMul(ms_des_par.m_P_high_limit * PressureScale, 12))
              target_value == TarValue(tar, out)
              residual == FSub(target_value, tar.m_target)
              l1 == l
              l2 == IF out.error_code # 0 \/ too_big THEN l1
                    ELSE IF FGe(residual, 0)
                    THEN (IF FLt(residual, l1.right_residual)
                          THEN [l1 EXCEPT !.P_high = P_guess, !.right_residual = residual,
                                          !.upper_bound_found = TRUE]
                          ELSE l1)
                    ELSE (IF FGt(residual, l1.left_residual)
                          THEN [l1 EXCEPT !.P_low = P_guess, !.left_residual = residual,
                                          !.lower_bound_found = TRUE]
                          ELSE l1)
              l3 == l2
              ended == too_big \/ (l2.lower_bound_found /\ l2.upper_bound_found) \/ l.i = l.search_intervals
          IN /\ ms_od_par' = [ms_od_par EXCEPT !.m_P_mc_in = P_guess]
             /\ obs' = [step |-> "search", P_mc_in |-> P_guess, P_low |-> l.P_low, P_high |-> l.P_high, after_failure |-> FALSE, failed |-> out.error_code # 0]
             /\ IF ~ended
                THEN /\ loc' = [l3 EXCEPT !.i = l.i + 1]
                     /\ pc' = "tar_search"
                     /\ UNCHANGED <<error_code, ret>>
                ELSE IF ~l2.lower_bound_found \/ ~l2.upper_bound_found
                THEN /\ loc' = l3
                     /\ pc' = "tar_done"
                     /\ error_code' = 26
                     /\ ret' = TarRet(26, l3)
                ELSE /\ loc' = TarEnterSecant(l3)
                     /\ pc' = "tar_secant"
                     /\ UNCHANGED <<error_code, ret>>
    /\ UNCHANGED <<env, ms_des_par, m_last, m_od, perf, opt, arg>>

\* the guess after a failed solve: P_low + (P_high - P_low)*P_guess, the
\* product of two pressures brought back to the pressure scale
FailedGuess(P_low, P_high, P_guess) == FAdd(P_low, FDiv(FMul(FSub(P_high, P_low), P_guess), PressureScale))

\* the end of target_off_design_core: the test after the loop
TarAfterLoop(l) == IF l.iter >= max_iter_target THEN 82 ELSE 0

\* one pass of the secant / bisection loop, and the test after the loop
\* when the pass was the last
TarSecantIterate ==
    /\ pc = "tar_secant"
    /\ LET tar == arg.ms_tar_od_par
              l == loc
              P_guess == l.P_guess
              out == OdOutcome(env, P_guess)
              value == TarValue(tar, out)
              residual == FSub(value, tar.m_target)
              above == FGe(residual, 0)
              met == IF above THEN RelAtMostTol(residual, tar.m_target, tar.m_tol)
                     ELSE RelAtMostTol(FNeg(residual), tar.m_target, tar.m_tol)
              l1 == IF met THEN l
                    ELSE IF above THEN [l EXCEPT !.P_high = P_guess] ELSE [l EXCEPT !.P_low = P_guess]
              tiny == ~met /\ IntervalTiny(l1.P_low, l1.P_high)
              P_secant == SecantGuess(P_guess, residual, l.last_P_guess, l.last_residual)
              next == IF FLe(P_secant, l1.P_low) \/ FGe(P_secant, l1.P_high)
                      THEN Bisect(l1.P_low, l1.P_high) ELSE P_secant
              l2 == IF out.error_code # 0
                    THEN [l EXCEPT !.P_guess = FailedGuess(l.P_low, l.P_high, P_guess),
                                   !.iter = l.iter + 1]
                    ELSE IF met \/ tiny
                    THEN [l1 EXCEPT !.converged = TRUE]
                    ELSE [l1 EXCEPT !.last_P_guess = P_guess, !.last_residual = residual,
                                    !.P_guess = next, !.iter = l.iter + 1]
              ended == l2.converged \/ l2.iter > max_iter_target
          IN /\ ms_od_par' = [ms_od_par EXCEPT !.m_P_mc_in = P_guess]
             /\ obs' = [step |-> "secant", P_mc_in |-> P_guess, P_low |-> l.P_low, P_high |-> l.P_high, after_failure |-> obs.step = "secant" /\ obs.failed, failed |-> out.error_code # 0]
             /\ loc' = l2
             /\ IF ended
                THEN /\ pc' = "tar_done"
                     /\ error_code' = TarAfterLoop(l2)
                     /\ ret' = TarRet(TarAfterLoop(l2), l2)
                ELSE /\ pc' = "tar_secant"
                     /\ UNCHANGED <<error_code, ret>>
    /\ UNCHANGED <<env, ms_des_par, m_last, m_od, perf, opt, arg>>

TarPar(lowest, highest, default_res, is_Q, tol) ==
    [m_T_mc_in |-> 40, m_T_t_in |-> 300, m_recomp_frac |-> 0, m_N_mc |-> 10, m_N_t |-> 7,
     m_N_sub_hxrs |-> 1, m_tol |-> tol, m_target |-> IF is_Q THEN 20000 ELSE 10000,
     m_is_target_Q |-> is_Q, m_lowest_pressure |-> lowest, m_highest_pressure |-> highest,
     m_use_default_res |-> default_res]

\* the runs: the pressure range in kPa; the gain; the place of the root and
\* of the failure window, in pressure steps above m_lowest_pressure (the
\* root in half steps)
TarRanges == {<<5000, 5100>>, <<8000, 8040>>, <<11900, 12100>>}
TarGains == {50, 1000, -1000}
TarRoots == {-101, 21, 801, 3789}
TarWindows == {<<0, 0>>, <<5, 15>>, <<1883, 1890>>}

InitTar ==
    /\ InitCommon
    /\ pc = "tar_call"
    /\ ms_des_par = [m_P_high_limit |-> 20000] @@ NoDesPar
    /\ ms_od_par = NoOdPar
    /\ perf = perf0
    /\ opt = NoOpt
    /\ \E range \in TarRanges, default_res \in BOOLEAN, is_Q \in BOOLEAN :
          /\ arg = [call |-> "target_off_design",
                    ms_tar_od_par |-> TarPar(range[1] * PressureScale, range[2] * PressureScale, default_res, is_Q, Tol(1, 100))]
          /\ \E gain \in TarGains, root \in TarRoots, window \in TarWindows :
                env = TarPlant(gain, 2 * range[1] * PressureScale + root,
                               IF window[2] = 0 THEN 0 ELSE range[1] * PressureScale + window[1],
                               IF window[2] = 0 THEN 0 ELSE range[1] * PressureScale + window[2])

NextTar == TargetOffDesignCall \/ TarSearchIterate \/ TarSecantIterate

SpecTar == InitTar /\ [][NextTar]_vars

\* ------------------------------------------------------------------------
\* optimal_target_off_design_no_check and eta_at_target.  The optimizer
\* calls eta_at_target at the starting vector and then at vectors of its
\* choice, at most MaxEvals times in all; every eta_at_target call runs
\* target_off_design_core.

\* the members of ms_tar_od_par copied from ms_opt_tar_od_par
TarFromOptTar(op, tar) ==
    [tar EXCEPT !.m_T_mc_in = op.m_T_mc_in, !.m_T_t_in = op.m_T_t_in,
                !.m_N_sub_hxrs = op.m_N_sub_hxrs, !.m_tol = op.m_tol, !.m_target = op.m_target,
                !.m_is_target_Q = op.m_is_target_Q, !.m_lowest_pressure = op.m_lowest_pressure,
                !.m_highest_pressure = op.m_highest_pressure,
                !.m_use_default_res = op.m_use_default_res]

\* the vectors x, lb, ub and scale and the counter index as the three
\* blocks build them: the block of the turbine speed does not count
TarGuessArrays(op) ==
    LET rf == IF op.m_fixed_recomp_frac
              THEN [x |-> <<>>, lb |-> <<>>, ub |-> <<>>, scale |-> <<>>, index |-> 0]
              ELSE [x |-> <<op.m_recomp_frac_guess>>, lb |-> <<0>>, ub |-> <<FracDen>>,
                    scale |-> <<Tol(1, 100)>>, index |-> 1]
        mc == IF op.m_fixed_N_mc
              THEN [x |-> <<>>, lb |-> <<>>, ub |-> <<>>, scale |-> <<>>, index |-> 0]
              ELSE [x |-> <<op.m_N_mc_guess>>, lb |-> <<1>>, ub |-> <<PInf>>,
                    scale |-> <<Tol(op.m_N_mc_guess, 4)>>, index |-> 1]
        t == IF op.m_fixed_N_t
             THEN [x |-> <<>>, lb |-> <<>>, ub |-> <<>>, scale |-> <<>>, index |-> 0]
             ELSE [x |-> <<op.m_N_t_guess>>, lb |-> <<1>>, ub |-> <<PInf>>,
                   scale |-> <<Tol(100, 1)>>, index |-> 0]
    IN [x |-> rf.x \o mc.x \o t.x, lb |-> rf.lb \o mc.lb \o t.lb, ub |-> rf.ub \o mc.ub \o t.ub,
        scale |-> rf.scale \o mc.scale \o t.scale, index |-> rf.index + mc.index + t.index]

\* the number of variables that are not pinned
TarFreeCount(op) ==
    (IF op.m_fixed_recomp_frac THEN 0 ELSE 1) + (IF op.m_fixed_N_mc THEN 0 ELSE 1)
    + (IF op.m_fixed_N_t THEN 0 ELSE 1)

\* the vectors the optimizer tries after the starting vector
TarVectors(op, n) ==
    LET rfs == IF op.m_fixed_recomp_frac THEN {<<>>} ELSE {<<f>> : f \in {-1, 2}}
        Nmcs == IF op.m_fixed_N_mc THEN {<<>>} ELSE {<<8>>}
        Nts == IF op.m_fixed_N_t THEN {<<>>} ELSE {<<0>>}
    IN {v \in {a \o b \o c : a \in rfs, b \in Nmcs, c \in Nts} : Len(v) = n}

\* optimal_target_off_design_no_check up to the optimizer or, with index 0,
\* up to its own call of eta_at_target.  An optimizer of dimension index
\* does not take bound vectors of another length: the set_lower_bounds call
\* leaves the function with the library's exception.
OptimalTargetOffDesignStart ==
    /\ pc = "otod_call"
    /\ LET op == opt.ms_opt_tar_od_par
           g == TarGuessArrays(op)
           o1 == [opt EXCEPT !.x = g.x, !.lb = g.lb, !.ub = g.ub, !.scale = g.scale,
                             !.index = g.index, !.m_eta_best = 0, !.evals = 0]
       IN /\ arg' = [call |-> "target_off_design",
                     ms_tar_od_par |-> TarFromOptTar(op, arg.ms_tar_od_par), x |-> g.x]
          /\ IF g.index > 0 /\ Len(g.lb) = g.index
             THEN /\ opt' = [o1 EXCEPT !.caller = "optimizer", !.dimension = g.index]
                  /\ pc' = "otod_eval"
                  /\ UNCHANGED <<ret, error_code>>
             ELSE IF g.index > 0
             THEN /\ opt' = [o1 EXCEPT !.caller = "none", !.dimension = g.index]
                  /\ pc' = "otod_done"
                  /\ ret' = [call |-> "optimal_target_off_design_no_check", outcome |-> "dimension mismatch",
                             error_code |-> error_code]
                  /\ UNCHANGED error_code
             ELSE /\ opt' = [o1 EXCEPT !.caller = "optimal_target_off_design_no_check"]
                  /\ pc' = "eat_call"
                  /\ UNCHANGED <<ret, error_code>>
    /\ UNCHANGED <<env, ms_des_par, ms_od_par, m_last, m_od, loc, perf, obs>>

\* the optimizer calls the objective through nlopt_cb_eta_at_target
TarOptimizerEvaluate ==
    /\ pc = "otod_eval"
    /\ opt.evals < MaxEvals
    /\ \E x \in IF opt.evals = 0 THEN {opt.x} ELSE TarVectors(opt.ms_opt_tar_od_par, opt.dimension) :
          arg' = [arg EXCEPT !.x = x]
    /\ opt' = [opt EXCEPT !.optimizer_run = TRUE]
    /\ pc' = "eat_call"
    /\ UNCHANGED <<error_code, env, ms_des_par, ms_od_par, m_last, m_od, loc, perf, ret, obs>>

\* eta_at_target up to its call of target_off_design_core; with a negative
\* recompression fraction it returns 0 before the call
EtaAtTargetCall ==
    /\ pc = "eat_call"
    /\ LET op == opt.ms_opt_tar_od_par
           x == arg.x
           i_mc == IF op.m_fixed_recomp_frac THEN 1 ELSE 2
           i_t == i_mc + (IF op.m_fixed_N_mc THEN 0 ELSE 1)
           rf == IF op.m_fixed_recomp_frac THEN op.m_recomp_frac_guess ELSE x[1]
           N_mc == IF op.m_fixed_N_mc THEN op.m_N_mc_guess ELSE x[i_mc]
           N_t0 == IF op.m_fixed_N_t THEN op.m_N_t_guess ELSE x[i_t]
           N_t == IF FLe(N_t0, 0) THEN N_mc ELSE N_t0
       IN /\ arg' = [arg EXCEPT !.ms_tar_od_par.m_recomp_frac = rf, !.ms_tar_od_par.m_N_mc = N_mc,
                                !.ms_tar_od_par.m_N_t = N_t]
          /\ IF FLt(rf, 0)
             THEN /\ pc' = "eat_return"
                  /\ ret' = [call |-> "eta_at_target", value |-> 0, called |-> FALSE]
             ELSE /\ pc' = "tar_call"
                  /\ ret' = ret
    /\ UNCHANGED <<error_code, env, ms_des_par, ms_od_par, m_last, m_od, loc, perf, opt, obs>>

\* target_off_design_core has returned: the value of eta_at_target, and the
\* best cycle so far
EtaAtTargetValue ==
    /\ pc = "tar_done"
    /\ LET out == OdOutcome(env, ms_od_par.m_P_mc_in)
           eta == FDiv(FMul(out.W_dot_net, 100), out.Q_dot_PHX)
           limit == ms_des_par.m_P_high_limit * PressureScale
           over == StdMax(0, FSub(out.P_mc_out, limit))
           penalized == IF FGt(out.P_mc_out, limit)
                        THEN FDiv(FMul(eta, FSub(limit, FMul(5, over))), limit) ELSE eta
           value == IF ret.error_code # 0 THEN 0 ELSE penalized
       IN /\ ret' = [call |-> "eta_at_target", value |-> value, called |-> TRUE]
          /\ opt' = IF ret.error_code = 0 /\ FGt(value, opt.m_eta_best)
                    THEN [opt EXCEPT !.m_eta_best = value, !.ms_od_par_tar_optimal = ms_od_par]
                    ELSE opt
    /\ pc' = "eat_return"
    /\ UNCHANGED <<error_code, env, ms_des_par, ms_od_par, m_last, m_od, loc, perf, arg, obs>>

\* eta_at_target returns to the optimizer or to
\* optimal_target_off_design_no_check
EtaAtTargetReturn ==
    /\ pc = "eat_return"
    /\ opt' = [opt EXCEPT !.evals = opt.evals + 1]
    /\ pc' = IF opt.caller = "optimizer" THEN "otod_eval" ELSE "otod_final"
    /\ UNCHANGED <<error_code, env, ms_des_par, ms_od_par, m_last, m_od, loc, perf, arg, ret, obs>>

\* the optimizer returns
TarOptimizerReturn ==
    /\ pc = "otod_eval"
    /\ opt.evals >= 1
    /\ opt' = [opt EXCEPT !.caller = "optimal_target_off_design_no_check"]
    /\ pc' = "otod_final"
    /\ UNCHANGED <<error_code, env, ms_des_par, ms_od_par, m_last, m_od, loc, perf, arg, ret, obs>>

\* the final call of the off-design model with ms_od_par_tar_optimal, or 98
\* when no evaluation gave an efficiency above zero
OptimalTargetOffDesignFinish ==
    /\ pc = "otod_final"
    /\ LET par == IF FGt(opt.m_eta_best, 0) THEN opt.ms_od_par_tar_optimal ELSE ms_od_par
           out == OdOutcome(env, par.m_P_mc_in)
           code == IF FGt(opt.m_eta_best, 0) THEN out.error_code ELSE 98
       IN /\ ms_od_par' = par
          /\ error_code' = code
          /\ ret' = [call |-> "optimal_target_off_design_no_check", outcome |-> "returned",
                     error_code |-> code]
    /\ opt' = [opt EXCEPT !.caller = "none"]
    /\ pc' = "otod_done"
    /\ UNCHANGED <<env, ms_des_par, m_last, m_od, loc, perf, arg, obs>>

OptTarPar(fixed_rf, fixed_N_mc, fixed_N_t, range, default_res) ==
    [m_fixed_recomp_frac |-> fixed_rf, m_recomp_frac_guess |-> 0,
     m_fixed_N_mc |-> fixed_N_mc, m_N_mc_guess |-> 10,
     m_fixed_N_t |-> fixed_N_t, m_N_t_guess |-> 7, m_opt_tol |-> Tol(1, 100)]
    @@ TarPar(range[1] * PressureScale, range[2] * PressureScale, default_res, FALSE, Tol(1, 100))

\* ms_tar_od_par before the call: the values of an earlier target
UnsetTarPar == TarPar(NaN, NaN, TRUE, TRUE, Tol(1, 10))

InitTod ==
    /\ InitCommon
    /\ pc = "otod_call"
    /\ ms_des_par = [m_P_high_limit |-> 20000] @@ NoDesPar
    /\ ms_od_par = NoOdPar
    /\ perf = perf0
    /\ arg = [call |-> "none", ms_tar_od_par |-> UnsetTarPar, x |-> <<>>]
    /\ \E fixed_rf \in BOOLEAN, fixed_N_mc \in BOOLEAN, fixed_N_t \in BOOLEAN, default_res \in BOOLEAN,
          range \in {<<8000, 8040>>, <<6000, 6040>>} :
          /\ opt = [caller |-> "none",
                    ms_opt_tar_od_par |-> OptTarPar(fixed_rf, fixed_N_mc, fixed_N_t, range, default_res),
                    x |-> <<>>, lb |-> <<>>, ub |-> <<>>, scale |-> <<>>, index |-> 0, dimension |-> 0,
                    optimizer_run |-> FALSE, m_eta_best |-> NaN, ms_od_par_tar_optimal |-> NoOdPar,
                    evals |-> 0]
          /\ \E gain \in {50, -1000}, root \in TarRoots, window \in {<<0, 0>>, <<5, 15>>} :
                env = TarPlant(gain, 2 * 8000 * PressureScale + root,
                               IF window[2] = 0 THEN 0 ELSE 8000 * PressureScale + window[1],
                               IF window[2] = 0 THEN 0 ELSE 8000 * PressureScale + window[2])

NextTod ==
    \/ OptimalTargetOffDesignStart
    \/ TarOptimizerEvaluate
    \/ EtaAtTargetCall
    \/ TargetOffDesignCall
    \/ TarSearchIterate
    \/ TarSecantIterate
    \/ EtaAtTargetValue
    \/ EtaAtTargetReturn
    \/ TarOptimizerReturn
    \/ OptimalTargetOffDesignFinish

SpecTod == InitTod /\ [][NextTod]_vars

\* ------------------------------------------------------------------------
\* C_recompressor::recompressor_sizing, its loop on the pressure between the
\* two stages taken one pass at a time.  Pressures are on a grid a thousand
\* times finer than the one of the cycle states; the flow coefficient is in
\* thousandths and the efficiencies are in hundredths, as in
\* compressor_sizing.  The 1e-6 added to and taken from the bounds and the
\* tolerance of 1e-8 are below one step of the grid.

max_iter_sizing == 100

\* 1e-8 is one part in TolPerPhiStep of a step of the flow coefficient and
\* one part in TolPerEtaStep of a step of an efficiency
TolPerPhiStep == 100000
TolPerEtaStep == 1000000

\* N_rad_s*9.549296590 with N_rad_s = U_tip*2.0/D_rotor, and its inverse
\* 2.0*U_tip/(N_design*0.104719755)
RpmPerTipRatio == 19

\* -residual <= tolerance
NegResidualWithinTol(residual) == FLe(FMul(FNeg(residual), TolPerPhiStep), 1)

\* fabs(eta_stage - eta_2_req) <= tolerance
EtaWithinTol(eta_stage, eta_2_req) == FLe(FMul(FAbs(FSub(eta_stage, eta_2_req)), TolPerEtaStep), 1)

\* the test that leaves the loop, written twice in the code: once where
\* the residual is below zero and once where it is not
StageLoopBreaks(residual, eta_stage, eta_2_req) ==
    IF FLt(residual, 0)
    THEN NegResidualWithinTol(residual) /\ EtaWithinTol(eta_stage, eta_2_req)
    ELSE NegResidualWithinTol(residual) /\ EtaWithinTol(eta_stage, eta_2_req)

RcDesPar(P_in, T_in, P_out, T_out, m_dot) ==
    [m_P_in |-> P_in, m_D_in |-> (P_in * DK) \div T_in, m_h_in |-> T_in,
     m_s_in |-> (T_in * SK) \div P_in, m_T_out |-> T_out, m_P_out |-> P_out,
     m_h_out |-> T_out, m_D_out |-> (P_out * DK) \div T_out, m_m_dot |-> m_dot]

RcUnsolved == [m_D_rotor |-> NaN, m_D_rotor_2 |-> NaN, m_eta_design |-> NaN, m_N_design |-> NaN]

RcRet(l) == [call |-> "recompressor_sizing", i |-> l.i, broke |-> l.broke]

\* the statements of recompressor_sizing before the loop
RecompressorSizingCall ==
    /\ pc = "rcs_call"
    /\ LET par == arg.des_par_in
           td == CO2_TD(env, "rc_sizing.TD", par.m_T_out, par.m_D_out)
           ps == CO2_PS(env, "rc_sizing.PS", par.m_P_out, par.m_s_in)
           l == [eta_design |-> FDiv(FMul(FSub(ps.enth, par.m_h_in), 100), FSub(par.m_h_out, par.m_h_in)),
                 psi_design |-> HeadCurve(m_snl_phi_design),
                 last_residual |-> 0, last_P_int |-> PInf,
                 lower_bound |-> par.m_P_in, upper_bound |-> par.m_P_out,
                 P_int |-> Bisect(par.m_P_in, par.m_P_out),
                 eta_stage |-> FDiv(FMul(FSub(ps.enth, par.m_h_in), 100), FSub(par.m_h_out, par.m_h_in)),
                 D_rotor_1 |-> NaN, D_rotor_2 |-> NaN, N_design |-> NaN,
                 i |-> 0, broke |-> FALSE]
       IN
       /\ ms_des_par' = par
       /\ IF td.err # 0 \/ ps.err # 0
          THEN /\ error_code' = (IF td.err # 0 THEN td.err ELSE ps.err)
               /\ pc' = "rcs_done"
               /\ ret' = RcRet(l)
               /\ loc' = loc
          ELSE /\ error_code' = error_code
               /\ pc' = "rcs_loop"
               /\ ret' = ret
               /\ loc' = l
    /\ UNCHANGED <<env, ms_od_par, m_last, m_od, perf, opt, arg, obs>>

\* the two stages at the guessed pressure between them
StagePass(env_, par, l) ==
    LET ps1 == CO2_PS(env_, "rc_sizing.stage1", l.P_int, par.m_s_in)
        w_i1 == FSub(ps1.enth, par.m_h_in)
        U_tip_1 == FSqrt(FDiv(FMul(HeadScale, w_i1), l.psi_design))
        D_rotor_1 == FSqrt(FDiv(FMul(par.m_m_dot, FlowScale),
                                FMul(FMul(m_snl_phi_design, par.m_D_in), U_tip_1)))
        N_design == FDiv(FMul(RpmPerTipRatio, U_tip_1), D_rotor_1)
        h_int == FAdd(par.m_h_in, FDiv(FMul(w_i1, 100), l.eta_stage))
        ph == CO2_PH(env_, "rc_sizing.PH", l.P_int, h_int)
        ps2 == CO2_PS(env_, "rc_sizing.stage2", par.m_P_out, ph.entr)
        w_i2 == FSub(ps2.enth, h_int)
        U_tip_2 == FSqrt(FDiv(FMul(HeadScale, w_i2), l.psi_design))
        D_rotor_2 == FDiv(FMul(RpmPerTipRatio, U_tip_2), N_design)
        phi == FDiv(FMul(par.m_m_dot, FlowScale),
                    FMul(FMul(ph.dens, U_tip_2), FMul(D_rotor_2, D_rotor_2)))
    IN  [err |-> IF ps1.err # 0 THEN ps1.err ELSE IF ph.err # 0 THEN ph.err ELSE ps2.err,
         D_rotor_1 |-> D_rotor_1, D_rotor_2 |-> D_rotor_2, N_design |-> N_design,
         phi |-> phi,
         eta_2_req |-> FDiv(FMul(w_i2, 100), FSub(par.m_h_out, h_int)),
         residual |-> FSub(m_snl_phi_design, phi)]

\* the next guess of the pressure between the stages
NextPInt(P_int, P_secant, secant_step, lower_bound, upper_bound) ==
    IF FLe(P_secant, lower_bound) \/ FGe(P_secant, upper_bound) THEN Bisect(lower_bound, upper_bound)
    ELSE IF FGt(FAbs(secant_step), FAbs(FDiv(FSub(upper_bound, lower_bound), 2)))
         THEN Bisect(lower_bound, upper_bound)
    ELSE P_secant

\* one pass of the loop; the statements after the loop belong to the pass
\* that ends it
RecompressorSizingIterate ==
    /\ pc = "rcs_loop"
    /\ loc.i < max_iter_sizing
    /\ \E st \in {StagePass(env, ms_des_par, loc)} :
       LET par == ms_des_par
           breaks == StageLoopBreaks(st.residual, loc.eta_stage, st.eta_2_req)
           lower_bound == IF FLt(st.residual, 0) THEN loc.lower_bound ELSE loc.P_int
           upper_bound == IF FLt(st.residual, 0) THEN loc.P_int ELSE loc.upper_bound
           secant_step == FDiv(FMul(FNeg(st.residual), FSub(loc.last_P_int, loc.P_int)),
                               FSub(loc.last_residual, st.residual))
           P_secant == FAdd(loc.P_int, secant_step)
           sized == [loc EXCEPT !.D_rotor_1 = st.D_rotor_1, !.D_rotor_2 = st.D_rotor_2,
                                !.N_design = st.N_design]
           next == [sized EXCEPT !.lower_bound = lower_bound, !.upper_bound = upper_bound,
                                 !.last_P_int = loc.P_int, !.last_residual = st.residual,
                                 !.P_int = NextPInt(loc.P_int, P_secant, secant_step, lower_bound, upper_bound),
                                 !.eta_stage = FDiv(FAdd(loc.eta_stage, st.eta_2_req), 2),
                                 !.i = loc.i + 1]
       IN
       /\ obs' = [step |-> "stage", i |-> loc.i, P_int |-> loc.P_int, eta_stage |-> loc.eta_stage,
                  err |-> st.err, residual |-> st.residual, eta_2_req |-> st.eta_2_req,
                  breaks |-> st.err = 0 /\ breaks]
       /\ IF st.err # 0
          THEN /\ error_code' = st.err
               /\ pc' = "rcs_done"
               /\ loc' = loc
               /\ ret' = RcRet(loc)
               /\ perf' = perf
          ELSE IF breaks
          THEN /\ error_code' = error_code
               /\ pc' = "rcs_done"
               /\ loc' = [sized EXCEPT !.broke = TRUE]
               /\ ret' = RcRet([sized EXCEPT !.broke = TRUE])
               /\ perf' = [m_D_rotor |-> st.D_rotor_1, m_D_rotor_2 |-> st.D_rotor_2,
                           m_eta_design |-> loc.eta_stage, m_N_design |-> st.N_design]
          ELSE IF next.i = max_iter_sizing
          THEN /\ error_code' = 1
               /\ pc' = "rcs_done"
               /\ loc' = next
               /\ ret' = RcRet(next)
               /\ perf' = perf
          ELSE /\ error_code' = error_code
               /\ pc' = "rcs_loop"
               /\ loc' = next
               /\ ret' = ret
               /\ perf' = perf
    /\ UNCHANGED <<env, ms_des_par, ms_od_par, m_last, m_od, opt, arg>>

RcSites == {"none", "rc_sizing.TD", "rc_sizing.PS", "rc_sizing.stage1", "rc_sizing.PH", "rc_sizing.stage2"}

\* inlet and outlet pressures, inlet temperature, design efficiency in
\* hundredths and mass flow of the runs
RcPressures == {<<8000, 16000>>, <<8000, 20000>>, <<8000, 24000>>}
RcInletTemps == {8000, 16000}
RcEfficiencies == {70, 80, 85, 90}
RcFlows == {100000, 1000000, 5000000}

\* the outlet temperature that gives the overall efficiency eta
RcOutletTemp(P_in, T_in, P_out, eta) ==
    T_in + (((((T_in * SK) \div P_in) * P_out) \div SK - T_in) * 100) \div eta

InitRc ==
    /\ InitCommon
    /\ pc = "rcs_call"
    /\ ms_des_par = NoDesPar
    /\ ms_od_par = NoOdPar
    /\ perf = RcUnsolved
    /\ opt = NoOpt
    /\ \E site \in RcSites, code \in OracleErrCodes :
          env = [failSite |-> site, failCode |-> code, hotSite |-> "none"]
    /\ \E P \in RcPressures, T_in \in RcInletTemps, eta \in RcEfficiencies, m_dot \in RcFlows :
          arg = [call |-> "recompressor_sizing",
                 des_par_in |-> RcDesPar(P[1], T_in, P[2], RcOutletTemp(P[1], T_in, P[2], eta), m_dot)]

NextRc == RecompressorSizingCall \/ RecompressorSizingIterate

SpecRc == InitRc /\ [][NextRc]_vars

\* ------------------------------------------------------------------------
\* Properties

\* the run is one of design_core_standard (off_design_core writes m_od in
\* its first step and design_core_standard never does)
InDesign == m_od = UnsetStates /\ pc # "od_start"

\* C1: a loop that runs through its whole cap without success makes the solve
\* return at once, with 31 for the T9 loop, 35 for the T8 loop and 42 for the
\* off-design mass-flow loop; the caps are 500 in design and 100 in
\* off-design; an iteration runs only below the cap, the codes arise in no
\* other way, and the return computes nothing: the state arrays, the locals
\* and the results stay as they were (state 5, net power, efficiency and
\* ms_od_solved unset).
C1_Step ==
    /\ pc = "T9_iter" => loc.T9_iter < 500
    /\ pc = "T8_head" => loc.T8_iter < 500
    /\ pc = "od_T9_iter" => loc.T9_iter < 100
    /\ pc = "od_T8_head" => loc.T8_iter < 100
    /\ pc = "md_iter" => loc.m_dot_iter < 100
    /\ ( \/ pc = "T8_body" /\ loc.T9_iter = 500
         \/ pc = "od_T8_body" /\ loc.T9_iter = 100 ) => pc' = "done" /\ error_code' = 31
    /\ ( \/ pc = "design_end" /\ loc.T8_iter = 500
         \/ pc = "od_end" /\ loc.T8_iter = 100 ) => pc' = "done" /\ error_code' = 35
    /\ (pc = "od_setup" /\ loc.m_dot_iter = 100) => pc' = "done" /\ error_code' = 42
    /\ error_code' = 31 => \/ pc = "T8_body" /\ loc.T9_iter = 500
                           \/ pc = "od_T8_body" /\ loc.T9_iter = 100
    /\ error_code' = 35 => \/ pc = "design_end" /\ loc.T8_iter = 500
                           \/ pc = "od_end" /\ loc.T8_iter = 100
    /\ error_code' = 42 => pc = "od_setup" /\ loc.m_dot_iter = 100
    /\ error_code' \in {31, 35, 42} =>
          /\ m_last' = m_last /\ m_od' = m_od /\ loc' = loc /\ perf' = perf
          /\ m_last.enth[5] = NaN /\ m_od.enth[5] = NaN
          /\ perf.m_W_dot_net_last = NaN /\ perf.m_eta_thermal_last = NaN
          /\ ~perf.ms_od_solved.set

C1_Caps == [][C1_Step]_vars

\* the T8 loop of a design has run its 500 iterations and the solve has
\* returned 35
C1_Witness == InDesign /\ pc = "done" /\ error_code = 35 /\ loc.T8_iter = 500

\* C2: on error 11 of the exchanger in a T9 or T8 iteration the solve goes
\* on: the guess becomes the lower bound, the upper bound stays, the next
\* guess is the midpoint, and the stored previous guess and residual are not
\* touched; any other nonzero exchanger code ends the solve with that code.
C2_Step ==
    LET design == pc \in {"T9_iter", "T8_body"}
        guess9 == IF design THEN m_last.temp[9] ELSE m_od.temp[9]
        next9 == IF design THEN m_last'.temp[9] ELSE m_od'.temp[9]
        guess8 == IF design THEN m_last.temp[8] ELSE m_od.temp[8]
        next8 == IF design THEN m_last'.temp[8] ELSE m_od'.temp[8]
    IN
    /\ (obs'.hx_called /\ obs'.hx_error_code = 11 /\ pc \in {"T9_iter", "od_T9_iter"}) =>
          /\ error_code' = 0 /\ pc' # "done"
          /\ loc'.T9_lower_bound = guess9
          /\ loc'.T9_upper_bound = loc.T9_upper_bound
          /\ next9 = Bisect(guess9, loc.T9_upper_bound)
          /\ loc'.last_T9_guess = loc.last_T9_guess
          /\ loc'.last_LT_residual = loc.last_LT_residual
    /\ (obs'.hx_called /\ obs'.hx_error_code = 11 /\ pc \in {"T8_body", "od_T8_body"}) =>
          /\ error_code' = 0 /\ pc' # "done"
          /\ loc'.T8_lower_bound = guess8
          /\ loc'.T8_upper_bound = loc.T8_upper_bound
          /\ next8 = Bisect(guess8, loc.T8_upper_bound)
          /\ loc'.last_T8_guess = loc.last_T8_guess
          /\ loc'.last_HT_residual = loc.last_HT_residual
    /\ (obs'.hx_called /\ obs'.hx_error_code \notin {0, 11}) =>
          pc' = "done" /\ error_code' = obs'.hx_error_code

C3_Step ==
    LET design == pc \in {"T9_iter", "T8_body"}
        T9 == pc \in {"T9_iter", "od_T9_iter"}
        T8 == pc \in {"T8_body", "od_T8_body"}
        lower == IF T9 THEN loc'.T9_lower_bound
                 ELSE IF T8 THEN loc'.T8_lower_bound ELSE loc'.m_dot_lower_bound
        upper == IF T9 THEN loc'.T9_upper_bound
                 ELSE IF T8 THEN loc'.T8_upper_bound ELSE loc'.m_dot_upper_bound
        next == IF T9 THEN (IF design THEN m_last'.temp[9] ELSE m_od'.temp[9])
                ELSE IF T8 THEN (IF design THEN m_last'.temp[8] ELSE m_od'.temp[8])
                ELSE loc'.m_dot_t
        secant == obs'.secant_guess
    IN obs'.outcome = "advance" =>
          next = IF FLt(lower, secant) /\ FLt(secant, upper) THEN secant
                 ELSE Bisect(lower, upper)

C3_SecantStrictlyInside == [][C3_Step]_vars

\* a T8 iteration of a design has taken a prediction that is not a number
\* as its next guess
C3_Witness ==
    /\ InDesign /\ obs.step = "T8" /\ obs.outcome = "advance"
    /\ obs.secant_guess = NaN /\ m_last.temp[8] = NaN

\* C4 (as the code has it): a T9 or T8 iteration of a design ends its loop
\* with success exactly if the exchanger evaluation succeeded and the
\* absolute residual is below 1e-12, or the absolute residual over the
\* target is below the tolerance, or the residual is not negative and the
\* minimum temperature difference is below the floor.
C4_FloorWhenNotNegative ==
    LET UA_target == IF obs.step = "T9" THEN ms_des_par.m_UA_LT ELSE ms_des_par.m_UA_HT
        r == obs.residual
        rel == /\ UA_target > 0
               /\ FLt(FMul(FAbs(r), ms_des_par.m_tol.den), FMul(ms_des_par.m_tol.num, UA_target))
    IN (InDesign /\ obs.step \in {"T8", "T9"}) =>
          ( obs.outcome = "converged" <=>
              /\ obs.hx_called /\ obs.hx_error_code = 0
              /\ \/ FLt(FAbs(r), UAFloor)
                 \/ rel
                 \/ FGe(r, 0) /\ FLt(obs.min_DT, temperature_tolerance) )

\* a loop of a design has ended with success on the temperature floor alone
C4_Witness ==
    /\ InDesign /\ obs.step \in {"T8", "T9"} /\ obs.outcome = "converged"
    /\ FGe(obs.residual, UAFloor) /\ FLt(obs.min_DT, temperature_tolerance)
    /\ ~FLt(FMul(obs.residual, ms_des_par.m_tol.den),
            FMul(ms_des_par.m_tol.num,
                 IF obs.step = "T9" THEN ms_des_par.m_UA_LT ELSE ms_des_par.m_UA_HT))

\* C4 (as stated): the same with the temperature floor counted whatever the
\* sign of the residual.
C4_FloorWhateverSign ==
    LET UA_target == IF obs.step = "T9" THEN ms_des_par.m_UA_LT ELSE ms_des_par.m_UA_HT
        r == obs.residual
        rel == /\ UA_target > 0
               /\ FLt(FMul(FAbs(r), ms_des_par.m_tol.den), FMul(ms_des_par.m_tol.num, UA_target))
    IN (InDesign /\ obs.step \in {"T8", "T9"}) =>
          ( obs.outcome = "converged" <=>
              /\ obs.hx_called /\ obs.hx_error_code = 0
              /\ \/ FLt(FAbs(r), UAFloor)
                 \/ rel
                 \/ FLt(obs.min_DT, temperature_tolerance) )

\* C5: in a T9 iteration of a design, a turbine mass flow from the power
\* balance that is zero or negative ends the solve at once with a nonzero
\* code, and the LT exchanger is not evaluated with that flow.
C5_NonPositiveFlowRejected ==
    (InDesign /\ obs.step = "T9" /\ FLe(obs.hx_flow, 0)) =>
        pc = "done" /\ error_code # 0 /\ ~obs.hx_called

\* the LT exchanger of a design has been evaluated with a turbine mass flow
\* of zero
C5_Witness == InDesign /\ obs.step = "T9" /\ obs.hx_flow = 0 /\ obs.hx_called

\* the inputs of the call of calculate_hxr_UA_1 that has returned
HxrReturned == pc = "done" /\ arg.call = "calculate_hxr_UA_1" /\ ret.call = "calculate_hxr_UA_1"

HxrPressureRise == FGt(arg.P_h_out, arg.P_h_in) \/ FGt(arg.P_c_out, arg.P_c_in)

\* the duty is in [0, 1e-14] (one grid unit)
HxrZeroDuty == FGe(arg.Q_dot, 0) /\ FLe(arg.Q_dot, 1)

\* no conductance was computed: the output is as the caller passed it in and
\* the oracle was not asked
HxrNoUA == ret.UA = arg.UA /\ ret.min_DT = arg.min_DT /\ ret.calls = 0

\* C6 (as the code has it): calculate_hxr_UA_1 returns a nonzero code and
\* computes no UA whenever the hot inlet is colder than the cold inlet or a
\* pressure rises from inlet to outlet, zero duty or not; with equal inlet
\* temperatures, no pressure rise and zero duty it reports no error and
\* returns UA = 0.
C6_ColderHotInletRejected ==
    HxrReturned =>
        /\ (FLt(arg.T_h_in, arg.T_c_in) \/ HxrPressureRise) => ret.error_code # 0 /\ HxrNoUA
        /\ (arg.T_h_in = arg.T_c_in /\ ~HxrPressureRise /\ HxrZeroDuty) =>
              ret.error_code = 0 /\ ret.UA = 0

\* a call with zero duty and a hot inlet colder than the cold inlet has been
\* rejected with code 5
C6_Witness ==
    /\ HxrReturned /\ HxrZeroDuty /\ FLt(arg.T_h_in, arg.T_c_in) /\ ~HxrPressureRise
    /\ ret.error_code = 5 /\ HxrNoUA

\* C6 (as stated): the same with equal inlet temperatures rejected too.
C6_EqualInletRejected ==
    HxrReturned =>
        ((FLe(arg.T_h_in, arg.T_c_in) \/ HxrPressureRise) => ret.error_code # 0 /\ HxrNoUA)

\* C7: a call of calculate_hxr_UA_1 with a hot inlet not colder than the cold
\* inlet, no pressure rise and a duty between 0 and the zero-duty threshold
\* returns UA = 0 and min_DT = T_h_in - T_c_in, asks the oracle nothing and
\* reports no error.
C7_ZeroDutyShortcut ==
    (HxrReturned /\ FGe(arg.T_h_in, arg.T_c_in) /\ ~HxrPressureRise /\ HxrZeroDuty) =>
        /\ ret.UA = 0
        /\ ret.min_DT = arg.T_h_in - arg.T_c_in
        /\ ret.calls = 0
        /\ ret.error_code = 0

\* a call with the duty at the threshold has returned by the shortcut
C7_Witness ==
    /\ HxrReturned /\ arg.Q_dot = 1 /\ arg.T_h_in > arg.T_c_in /\ ~HxrPressureRise
    /\ arg.UA # 0 /\ ret.UA = 0 /\ ret.min_DT = arg.T_h_in - arg.T_c_in /\ ret.calls = 0

\* C8: when a call of the property oracle fails with code e in a design or
\* off-design solve, the solve ends and returns exactly e.
C8_OracleCodeForwarded ==
    obs.oracle_failure # 0 => pc = "done" /\ error_code = obs.oracle_failure

\* the oracle has failed with code 3 inside calculate_hxr_UA_1 and the solve
\* has returned 9
C8_Witness == pc = "done" /\ obs.hx_called /\ obs.oracle_failure = 3 /\ error_code = 9

\* C9: after a successful design the stored enthalpy, entropy and density of
\* each of the 10 nodes are what the oracle gives for the node's stored
\* temperature and pressure.
C9_NodesConsistent ==
    (InDesign /\ pc = "done" /\ error_code = 0) =>
        \A i \in 1..10 :
            LET c == CO2_TP(NoFail, "check", m_last.temp[i], m_last.pres[i])
            IN m_last.enth[i] = c.enth /\ m_last.entr[i] = c.entr /\ m_last.dens[i] = c.dens

\* a design without recompression has succeeded and node 10 holds the
\* temperature and the enthalpy of node 9 at the pressure of node 3
C9_Witness ==
    /\ InDesign /\ pc = "done" /\ error_code = 0 /\ ms_des_par.m_recomp_frac = 0
    /\ m_last.temp[10] = m_last.temp[9] /\ m_last.dens[10] = m_last.dens[9]
    /\ m_last.pres[10] = m_last.pres[3] /\ m_last.pres[10] # m_last.pres[9]

\* the free variable of design_point_eta at a position of x, and whether it
\* is free
EtaFree(k) ==
    LET op == opt.ms_opt_des_par
        fixed == <<op.m_fixed_P_mc_out, op.m_fixed_PR_mc, op.m_fixed_recomp_frac, op.m_fixed_LT_frac>>
    IN ~fixed[k]

EtaValue(k) ==
    LET op == opt.ms_opt_des_par
        guess == <<op.m_P_mc_out_guess, op.m_PR_mc_guess, op.m_recomp_frac_guess, op.m_LT_frac_guess>>
    IN IF EtaFree(k) THEN arg.x[Cardinality({j \in 1..k : EtaFree(j)})] ELSE guess[k]

\* the vector is one the objective is to refuse: pressure ratio above 50,
\* inlet pressure not below outlet pressure, a free fraction outside [0,1]
EtaInfeasible ==
    \/ EtaFree(2) /\ EtaValue(2) > PRMax
    \/ EtaValue(1) * PRScale >= EtaValue(1) * EtaValue(2)
    \/ EtaFree(3) /\ (EtaValue(3) < 0 \/ EtaValue(3) > FracDen)
    \/ EtaFree(4) /\ (EtaValue(4) < 0 \/ EtaValue(4) > FracDen)

\* C10: design_point_eta returns 0 without a call of design_core for every
\* infeasible vector.
C10_InfeasibleShortCircuits ==
    (opt.caller = "design_point_eta" /\ pc # "eta_call" /\ EtaInfeasible) =>
        pc = "eta_done" /\ ret.value = 0 /\ opt.design_core_calls = 0

\* design_core has been called with a recompression fraction above 1
C10_Witness ==
    /\ opt.caller = "design_point_eta" /\ opt.design_core_calls = 1
    /\ EtaFree(3) /\ EtaValue(3) > FracDen /\ ms_des_par.m_recomp_frac > FracDen


\* opt_design has returned from a run that had a free variable
OptRunEnded == pc = "opt_done" /\ FreeIndex(opt.ms_opt_des_par) > 0

\* evaluation i of the run solved its design, and no solved evaluation of
\* the run has a larger efficiency
BestSolved(i) ==
    /\ opt.evals[i].solved
    /\ \A j \in 1..Len(opt.evals) : opt.evals[j].solved => FLe(opt.evals[j].value, opt.evals[i].value)

\* C11: when opt_design_core ends a run with a free variable, the design
\* parameters that its final design_core call solved are those of an
\* evaluation design_point_eta made in this run, that evaluation solved its
\* design with the largest efficiency of the run's solved evaluations, and
\* m_eta_thermal_opt is that efficiency; parameters cached by an earlier
\* run are never the ones solved again.
C11_BestOfThisRunResolved ==
    OptRunEnded =>
        \E i \in 1..Len(opt.evals) :
            /\ BestSolved(i)
            /\ opt.evals[i].ms_des_par = ms_des_par
            /\ opt.m_eta_thermal_opt = opt.evals[i].value

\* a second run asks for a negative net power, none of its evaluations
\* solves, and opt_design returns 0 with the design of the first run solved
\* again and copied into ms_des_solved
C11_Witness ==
    /\ OptRunEnded
    /\ opt.run = 2
    /\ opt.ms_opt_des_par.m_W_dot_net = -200
    /\ \A i \in 1..Len(opt.evals) : ~opt.evals[i].solved
    /\ ms_des_par.m_W_dot_net = 200
    /\ error_code = 0
    /\ perf.ms_des_solved.set
    /\ FGt(perf.ms_des_solved.m_W_dot_net, 0)

\* the part of C11 that the code keeps: when an evaluation of the run solved
\* with a positive efficiency, the best one is solved again
C11_WhenSomeSolved ==
    (OptRunEnded /\ \E i \in 1..Len(opt.evals) : opt.evals[i].solved /\ FGt(opt.evals[i].value, 0))
        => C11_BestOfThisRunResolved

\* C12: opt_design returns a nonzero error code whenever the final
\* design_core solve inside opt_design_core failed, and finalize_design is
\* not run on the failed design.
C12_FailedSolveReported ==
    (pc = "opt_done" /\ ret.no_opt_error_code # 0) => (error_code # 0 /\ ~ret.finalized)

\* the final solve failed, finalize_design ran and opt_design returned 0
C12_Witness ==
    /\ pc = "opt_done"
    /\ ret.no_opt_error_code # 0
    /\ ret.finalized
    /\ error_code = 0
    /\ perf.ms_des_solved.set



\* auto_opt_design_hit_eta has been entered and auto_opt_design_core called
HitEntered == arg.call = "auto_opt_design_hit_eta" /\ pc # "hit_start"
CoreCalled == obs.step = "auto_opt_design_core"

\* C13: auto_opt_design_hit_eta returns error code -1 with a message that
\* is not empty, without a call of auto_opt_design_core, whenever the target
\* efficiency is at most 0 or at least the Carnot efficiency
\* 1 - T_mc_in/T_t_in of the inlet temperatures after their clamping to at
\* most 343 K and at least 573 K.
C13_TargetOutsideRejected ==
    LET T_mc == IF arg.in.m_T_mc_in > 343 THEN 343 ELSE arg.in.m_T_mc_in
        T_t == IF arg.in.m_T_t_in < 573 THEN 573 ELSE arg.in.m_T_t_in
    IN (HitEntered /\ ( \/ arg.in.m_eta_thermal <= 0
                        \/ arg.in.m_eta_thermal * T_t >= 100 * (T_t - T_mc) ))
          => /\ pc = "hit_done"
             /\ error_code = -1
             /\ ret.error_code = -1
             /\ ret.error_msg # <<>>
             /\ ~CoreCalled

\* both temperatures were clamped and the target 58 % is above the Carnot
\* efficiency 40.1 % of 343 K and 573 K
C13_Witness ==
    /\ pc = "hit_done"
    /\ arg.in.m_T_mc_in = 400 /\ arg.in.m_T_t_in = 500 /\ arg.in.m_eta_thermal = 58
    /\ opt.ms_auto_opt_des_par.m_T_mc_in = 343 /\ opt.ms_auto_opt_des_par.m_T_t_in = 573
    /\ ret.error_code = -1
    /\ Len(ret.error_msg) = 3
    /\ ~CoreCalled

\* C14: every total recuperator conductance that auto_opt_design_hit_eta
\* hands to auto_opt_design_core, the first guess included, lies in
\* [UA_net_power_ratio_min * W_dot_net, UA_net_power_ratio_max * W_dot_net].
C14_ConductanceInRange ==
    (arg.call = "auto_opt_design_hit_eta" /\ pc = "hit_core") =>
        LET UA == opt.ms_auto_opt_des_par.m_UA_rec_total
            W == opt.ms_auto_opt_des_par.m_W_dot_net
        IN /\ UA * RatioDen >= arg.ms_des_limits.m_UA_net_power_ratio_min * W
           /\ UA * RatioDen <= arg.ms_des_limits.m_UA_net_power_ratio_max * W

\* with the ratio limited to [1/320, 2] and a net power of 320, the fifth
\* call gets the conductance 0.1 * 2.5^4 * 320 = 1250, a ratio of 3.9
C14_Witness ==
    /\ pc = "hit_core"
    /\ arg.call = "auto_opt_design_hit_eta"
    /\ arg.ms_des_limits.m_UA_net_power_ratio_max = 640
    /\ opt.ms_auto_opt_des_par.m_W_dot_net = 320
    /\ loc.opt_des_calls = 5
    /\ ~loc.low_flag
    /\ opt.ms_auto_opt_des_par.m_UA_rec_total = 1250

\* the part of C14 that the code keeps: once both bounds are set, the guess
\* lies between them
C14_BetweenBounds ==
    (arg.call = "auto_opt_design_hit_eta" /\ pc = "hit_core" /\ loc.low_flag /\ loc.high_flag) =>
        \/ loc.x_lower <= loc.UA_recups_guess /\ loc.UA_recups_guess <= loc.x_upper
        \/ loc.x_upper <= loc.UA_recups_guess /\ loc.UA_recups_guess <= loc.x_lower

\* C15: auto_opt_design_hit_eta returns after finitely many calls of
\* auto_opt_design_core, whatever efficiencies the calls give.
C15_Terminates == <>(pc = "hit_done")

\* when it returns, the code is -1, or 0 with the last design's efficiency
\* within the tolerance of the target
C15_ReturnValue ==
    (arg.call = "auto_opt_design_hit_eta" /\ pc = "hit_done") =>
        \/ error_code = -1
        \/ /\ error_code = 0
           /\ CoreCalled
           /\ FLe(FAbs(FSub(perf.ms_des_solved.m_eta_thermal, arg.in.m_eta_thermal)),
                  arg.in.m_tol)

\* both bounds are set, the next guess is the upper bound again and the
\* efficiency found there was off by more than the tolerance: a call that
\* gives the same efficiency again leaves the loop where it was
C15_Witness ==
    /\ pc = "hit_core"
    /\ arg.call = "auto_opt_design_hit_eta"
    /\ loc.low_flag /\ loc.high_flag
    /\ loc.UA_recups_guess = loc.x_upper
    /\ FGt(FAbs(loc.y_upper), arg.in.m_tol)
    /\ loc.diff_eta = loc.y_upper
    /\ loc.opt_des_calls = CallsCap



\* a mass-flow iteration of off_design_core has just run with the oracle
\* answering at the compressor inlet
MdotIterated == obs.step = "mdot" /\ env.failSite # "mc.TP"

\* the flow coefficient (in thousandths) that the iteration's guess implies
\* in the main compressor
ImpliedPhi ==
    LET m_dot_mc == FSub(obs.guess, FDiv(FMul(obs.guess, ms_od_par.m_recomp_frac), FracDen))
        U_tip == FMul(perf.m_mc.m_D_rotor, ms_od_par.m_N_mc)
        rho_in == CO2_TP(NoFail, "check", m_od.temp[1], m_od.pres[1]).dens
    IN FDiv(FMul(m_dot_mc, 100), FMul(FMul(rho_in, U_tip), perf.m_mc.m_D_rotor * perf.m_mc.m_D_rotor))

\* C16: off_design_compressor signals a failure for the guess whenever the
\* implied flow coefficient is below phi_min = 0.02 or above phi_max = 0.05,
\* and off_design_core answers by moving a bound of the mass-flow bracket
\* to the guess and bisecting, without a return.
C16_FlowRangeSignalled ==
    (MdotIterated /\ (FLt(ImpliedPhi, 20) \/ FGt(ImpliedPhi, 50))) =>
        /\ obs.comp_error_code \in {1, 2}
        /\ obs.outcome \in {"comp_upper", "comp_lower"}
        /\ pc # "done"

\* a guess in surge (flow coefficient 0.015 or less) that the compressor
\* model accepts and the mass-flow loop goes on with
C16_Witness ==
    /\ MdotIterated
    /\ FLt(ImpliedPhi, 20)
    /\ loc.surge
    /\ obs.comp_error_code = 0
    /\ obs.outcome \in {"advance", "converged"}

\* the part of C16 that the code keeps: the signals 1 and 2 move a bound to
\* the guess and bisect, and a flow coefficient with no head left gives 1
C16_SignalAnswered ==
    MdotIterated =>
        /\ obs.comp_error_code = 1 =>
              /\ obs.outcome = "comp_upper" /\ pc # "done"
              /\ loc.m_dot_upper_bound = obs.guess
              /\ loc.m_dot_t = Bisect(loc.m_dot_lower_bound, loc.m_dot_upper_bound)
        /\ obs.comp_error_code = 2 =>
              /\ obs.outcome = "comp_lower" /\ pc # "done"
              /\ loc.m_dot_lower_bound = obs.guess
              /\ loc.m_dot_t = Bisect(loc.m_dot_lower_bound, loc.m_dot_upper_bound)
        /\ (FGe(ImpliedPhi, 55) /\ ms_od_par.m_N_mc = perf.m_mc.m_N_design) => obs.comp_error_code = 1

\* ------------------------------------------------------------------------
\* C17: in off_design_core the mass-flow loop is the outer loop around the
\* T8/T9 loops: when the next mass-flow guess is chosen, or the mass flow is
\* declared converged, the T8 and T9 loops have run for the guess just
\* evaluated.
C17_MassFlowLoopIsOuter == (obs.step = "mdot" /\ obs.outcome \in {"advance", "converged"}) => loc.T8_iter >= 0 /\ loc.T9_iter >= 0

\* the mass flow is declared converged after two guesses although neither
\* the T8 loop nor the T9 loop has started and states 8 and 9 are unset
C17_Witness == obs.step = "mdot" /\ obs.outcome = "converged" /\ pc = "od_setup" /\ loc.m_dot_iter >= 1 /\ loc.T8_iter = -1 /\ loc.T9_iter = -1 /\ m_od.temp[8] = NaN /\ m_od.temp[9] = NaN

\* what the code does: the loops run one after the other, the T8 and T9
\* loops leave the converged mass flow alone and never return to the
\* mass-flow loop
C17_LoopsInSequence == [][(pc \in {"od_setup", "od_T8_head", "od_T9_iter", "od_T8_body", "od_end"}) => (pc' # "md_iter" /\ loc'.m_dot_t = loc.m_dot_t)]_vars

\* ------------------------------------------------------------------------
OdvReturned == pc = "odv_done" /\ ret.call = "off_design_point_value"

\* C18: off_design_point_value is strictly positive whenever the off-design
\* solve succeeded, also above the design pressure limit, where it is the
\* unpenalized value times a factor strictly between 0 and 1; it is 0 only
\* for a negative recompression fraction or a failed solve.
C18_PositiveWhenSolved == OdvReturned => /\ (~ret.rejected /\ ret.od_error_code = 0) => /\ FGt(ret.value, 0)
                                                                                        /\ FGt(m_od.pres[2], ms_des_par.m_P_high_limit) => 0 < 6 * ms_des_par.m_P_high_limit - 5 * m_od.pres[2] /\ 6 * ms_des_par.m_P_high_limit - 5 * m_od.pres[2] < ms_des_par.m_P_high_limit
                                         /\ ret.value = 0 => ret.rejected \/ ret.od_error_code # 0

\* a solve that succeeded with positive efficiency or power and a compressor
\* outlet pressure of at least 1.2 times the limit: the value is 0 or negative
C18_Witness == OdvReturned /\ ~ret.rejected /\ ret.od_error_code = 0 /\ FGt(ret.unpenalized, 0) /\ 5 * m_od.pres[2] >= 6 * ms_des_par.m_P_high_limit /\ FLe(ret.value, 0)

\* what the code does: 0 for a negative recompression fraction and for a
\* failed solve; at or below the limit the value is the solved efficiency or
\* power as it is
C18_ZeroAndUnpenalized == OdvReturned => /\ (ret.rejected \/ ret.od_error_code # 0) => ret.value = 0
                                         /\ ret.rejected <=> FLt(ms_od_par.m_recomp_frac, 0)
                                         /\ (~ret.rejected /\ ret.od_error_code = 0 /\ FLe(m_od.pres[2], ms_des_par.m_P_high_limit)) => ret.value = ret.unpenalized

\* ------------------------------------------------------------------------
WindReturned == pc = "wind_done" /\ ret.call = "wind_power"

\* the freestream turbine_power evaluation of the call
Freestream == turbine_power(arg.turbine, arg.in.fWindSpeed, AirDensityRatio(arg.in.dAirPressureAtm, arg.in.TdryC))

\* C19: for a farm of one turbine wind_power gives the farm power of the
\* standalone turbine_power evaluation and reports that turbine's power,
\* thrust coefficient and efficiency in the per-turbine arrays, whatever the
\* wake model selected.
C19_SingleTurbineReported == (WindReturned /\ arg.farm.m_iNumberOfTurbinesInFarm = 1) => /\ ret.out.FarmP = Freestream.fTurbineOutput
                                                                                         /\ ret.out.Power[1] = Freestream.fTurbineOutput
                                                                                         /\ ret.out.Thrust[1] = Freestream.fThrustCoefficient
                                                                                         /\ ret.out.Eff[1] = (IF Freestream.fTurbineOutput < 10 THEN 0 ELSE 100)

\* one turbine producing 50 kW under a selected wake model: the farm power
\* is set and the arrays still hold what the caller had in them
C19_Witness == WindReturned /\ arg.farm.m_iNumberOfTurbinesInFarm = 1 /\ arg.farm.m_iWakeModelChoice \in WakeModels /\ Freestream.fTurbineOutput = 500 /\ ret.value = 1 /\ ret.out.FarmP = 500 /\ arg.out.Power[1] = 77 /\ ret.out.Power[1] = 77 /\ ret.out.Thrust[1] = 77 /\ ret.out.Eff[1] = 77

\* what the code does for one turbine: the farm power is the freestream
\* power, the return value is 1, no wake model runs and no array is written,
\* for every wake model selection
C19_FarmPowerOnly == (WindReturned /\ arg.farm.m_iNumberOfTurbinesInFarm = 1) => /\ ret.value = 1 /\ ret.wake = "none"
                                                                                 /\ ret.out = [arg.out EXCEPT !.FarmP = Freestream.fTurbineOutput]

\* C20: for a farm of two or more turbines whose freestream turbine_power
\* evaluation gives no power, the farm power is 0, Power[i] is 0 for every
\* turbine i and no wake model is run.
C20_ZeroPowerForAll == (WindReturned /\ arg.farm.m_iNumberOfTurbinesInFarm \in 2..3 /\ Freestream.fTurbineOutput <= 0) => /\ ret.out.FarmP = 0
                                                                                                                           /\ ret.wake = "none"
                                                                                                                           /\ \A i \in 1..arg.farm.m_iNumberOfTurbinesInFarm : ret.out.Power[i] = 0

\* two turbines below the cut-in speed: the farm power is 0, no wake model
\* has run and Power still holds the caller's earlier values
C20_Witness == WindReturned /\ arg.farm.m_iNumberOfTurbinesInFarm = 2 /\ arg.in.fWindSpeed = 20 /\ Freestream.fTurbineOutput = 0 /\ ret.value = 2 /\ ret.out.FarmP = 0 /\ ret.wake = "none" /\ ret.out.Power = <<77, 77>>

\* what the code does then: farm power 0, the turbine count returned, no
\* wake model run and every array left as the caller passed it
C20_ShortCircuit == (WindReturned /\ arg.farm.m_iNumberOfTurbinesInFarm \in 2..3 /\ Freestream.fTurbineOutput <= 0) => /\ ret.value = arg.farm.m_iNumberOfTurbinesInFarm /\ ret.wake = "none"
                                                                                                                        /\ ret.out = [arg.out EXCEPT !.FarmP = 0]

\* both runs went through a wake model
OrderReturned == pc = "order_done" /\ ret.call = "wind_power" /\ ret.first.wake \in WakeModels /\ ret.second.wake \in WakeModels

\* the turbine given as input k of the second run has, in both runs, the
\* same power, thrust, efficiency, wind speed and turbulence intensity
SameTurbineOutputs(k) ==
    /\ ret.second.out.Power[k] = ret.first.out.Power[arg.order[k]]
    /\ ret.second.out.Thrust[k] = ret.first.out.Thrust[arg.order[k]]
    /\ ret.second.out.Eff[k] = ret.first.out.Eff[arg.order[k]]
    /\ ret.second.out.adWindSpeed[k] = ret.first.out.adWindSpeed[arg.order[k]]
    /\ ret.second.out.aTurbulence_intensity[k] = ret.first.out.aTurbulence_intensity[arg.order[k]]

\* two turbines of the farm at the same downwind distance
TiedDownwind == \E a, b \in 1..Len(ret.first.sorted_id) : a # b /\ ret.first.pos[a].d = ret.first.pos[b].d

\* C21: wind_power run on the same turbines given in another order gives
\* every turbine the same power, thrust, efficiency, wind speed and
\* turbulence intensity and the farm the same power, for every layout, ties
\* in downwind distance included, and each of the four wake models
C21_OrderInvariant == OrderReturned => /\ ret.second.out.FarmP = ret.first.out.FarmP
                                       /\ \A k \in 1..arg.farm.m_iNumberOfTurbinesInFarm : SameTurbineOutputs(k)

C21_Witness == OrderReturned /\ TiedDownwind /\ ret.first.wake = "SIMPLE_EDDY_VISCOSITY_WAKE_MODEL" /\ arg.order = <<1, 3, 2>> /\ ret.first.out.FarmP = 210 /\ ret.second.out.FarmP = 150

\* without a tie in downwind distance the order of the input does not
\* matter
C21_OrderInvariantUntied == (OrderReturned /\ ~TiedDownwind) => /\ ret.second.out.FarmP = ret.first.out.FarmP
                                                                /\ \A k \in 1..arg.farm.m_iNumberOfTurbinesInFarm : SameTurbineOutputs(k)

IdsReturned == pc = "ids_done" /\ ret.call = "wind_power" /\ ret.value >= 2

\* C22: after a multi-turbine call, for every turbine count the count check
\* admits, entry k of the outputs is the value computed for the turbine
\* given as input k, and the id array is the identity
C22_OutputsInInputOrder == IdsReturned => \A k \in 1..ret.value : ret.rows[k].p = CrosswindOf(k) /\ ret.rows[k].id = k - 1

C22_Witness == IdsReturned /\ arg.m_iNumberOfTurbinesInFarm = 257 /\ arg.pattern = "sorted" /\ ret.rows[2].p = CrosswindOf(257) /\ ret.rows[2].id = 0 /\ ret.rows[257].p = CrosswindOf(256)

\* the id array after the sort by distance holds each of 0..N-1 once (it
\* does not for more than 256 turbines)
C22_IdsArePermutation == (pc = "ids_by_id") => \A v \in 0..(ret.value - 1) : \E i \in 1..ret.value : ret.sorted_id[i] = v

\* up to 256 turbines the outputs come back in input order
C22_InInputOrderUpTo256 == (IdsReturned /\ ret.value <= 256) => \A k \in 1..ret.value : ret.rows[k].p = CrosswindOf(k) /\ ret.rows[k].id = k - 1

\* every entry of both matrices is zero
EVAllZero(mats) == \A k \in DOMAIN mats.deficits : \A c \in DOMAIN mats.deficits[k] : mats.deficits[k][c] = 0 /\ mats.widths[k][c] = 0

\* C23: in the eddy-viscosity model both matrices are all zero at the start
\* of an evaluation; row j is read only for a turbine i > j in sorted order,
\* after turbine j was computed and its row filled in this evaluation; no
\* row is filled twice
C23_RowsFilledThenRead == /\ (pc = "ev_turbine" /\ obs.step = "zero") => EVAllZero(ret.mats)
                          /\ (pc \in {"ev_turbine", "ev_done"} /\ obs.step = "read") => (obs.row < obs.by /\ obs.row \in obs.filled /\ obs.by \notin obs.filled)
                          /\ (pc \in {"ev_turbine", "ev_done"}) => obs.step # "refill"
                          /\ (pc \in {"ev_turbine", "ev_done"} /\ obs.step \in {"zero", "read", "fill"}) => \A k \in 1..Len(ret.pos) : k \in obs.filled \/ (\A c \in DOMAIN ret.mats.deficits[k] : ret.mats.deficits[k][c] = 0 /\ ret.mats.widths[k][c] = 0)

C23_Witness == pc = "ev_turbine" /\ obs.step = "read" /\ obs.row = 2 /\ obs.by = 3 /\ ret.mats.deficits[2][1] > 0 /\ ret.mats.deficits[3][1] = 0 /\ arg.farm.mats.deficits[3][1] = 300

\* the passes give what wake_calculations_EddyViscosity_Simple gives
C23_PassesAreTheLoop == (pc = "ev_done" /\ ret.value >= 2 /\ obs.step = "fill") => LET r == wind_power(arg.turbine, arg.farm, arg.in, arg.out) IN r.mats = ret.mats /\ r.out.FarmP = SeqSum(ret.w.Power, ret.value)

\* opt_design has returned after finalize_design sized the turbine with a
\* shaft speed that asks for the compressor's (zero or negative), the
\* compressors sized without error and at a positive design speed
LinkedShaftSized == pc = "opt_done" /\ ret.call = "opt_design" /\ ret.finalized /\ FLe(ms_des_par.m_N_turbine, 0) /\ env = NoFail /\ FGt(perf.m_mc.m_N_design, 0)

\* C24: turbine_sizing with a design shaft speed that is zero or negative
\* and a positive compressor design speed reports no error, sets the turbine
\* design speed to the compressor's and computes rotor diameter and nozzle
\* area
C24_LinkedShaftSucceeds == LinkedShaftSized => (ret.error_code = 0 /\ perf.m_t.m_N_design = perf.m_mc.m_N_design /\ perf.m_t.m_D_rotor # NaN /\ perf.m_t.m_A_nozzle # NaN)

C24_Witness == LinkedShaftSized /\ opt.run = 1 /\ ms_des_par.m_N_turbine = 0 /\ ret.error_code = 7 /\ error_code = 7 /\ perf.m_t.m_N_design = perf.m_mc.m_N_design /\ perf.m_t.m_D_rotor = NaN /\ perf.m_t.m_A_nozzle = NaN /\ ~perf.ms_des_solved.set

\* with a linked shaft the turbine takes the compressor's speed and
\* finalize_design returns error 7; in the first run of the cycle object
\* the rotor diameter and the nozzle area stay unset
C24_LinkedShaftIsError7 == LinkedShaftSized => (ret.error_code = 7 /\ perf.m_t.m_N_design = perf.m_mc.m_N_design /\ (opt.run = 1 => (perf.m_t.m_D_rotor = NaN /\ perf.m_t.m_A_nozzle = NaN /\ ~perf.ms_des_solved.set)))

OodReturned == pc = "ood_done" /\ ret.call = "optimal_off_design"

\* ms_od_solved and the off-design state arrays are those of a solve with
\* the parameters in ms_od_par
SolvedAsOdPar == /\ perf.ms_od_solved.set
                 /\ perf.ms_od_solved.m_N_mc = ms_od_par.m_N_mc
                 /\ perf.ms_od_solved.m_N_t = ms_od_par.m_N_t
                 /\ perf.ms_od_solved.m_recomp_frac = ms_od_par.m_recomp_frac
                 /\ m_od.pres[1] = ms_od_par.m_P_mc_in
                 /\ m_od.temp[6] = ms_od_par.m_T_t_in

\* C25: whenever optimal_off_design returns error code 0, off_design_core
\* was run during the call with the parameters left in ms_od_par and
\* succeeded, for every combination of pinned variables, all four pinned
\* included
C25_ZeroMeansSolved == (OodReturned /\ ret.error_code = 0) => (ret.core_called /\ SolvedAsOdPar)

C25_Witness == OodReturned /\ ret.error_code = 0 /\ OdFreeIndex(opt.ms_opt_od_par) = 0 /\ ~ret.core_called /\ ~perf.ms_od_solved.set /\ m_od = UnsetStates /\ ms_od_par.m_T_t_in = 300

\* with a free variable, error code 0 means the final solve ran and
\* succeeded
C25_ZeroMeansSolvedWhenFree == (OodReturned /\ ret.error_code = 0 /\ OdFreeIndex(opt.ms_opt_od_par) > 0) => (ret.core_called /\ SolvedAsOdPar)

\* a state inside the T8 loop of design_core_standard, and one inside its
\* T9 loop
InT8Loop == pc \in {"T8_head", "T9_iter", "T8_body"}
InT9Loop == pc = "T9_iter"

T8Bracketed == FLe(loc.T8_lower_bound, loc.T8_upper_bound) /\ FLe(loc.T8_lower_bound, m_last.temp[8]) /\ FLe(m_last.temp[8], loc.T8_upper_bound)
T9Bracketed == FLe(loc.T9_lower_bound, loc.T9_upper_bound) /\ FLe(loc.T9_lower_bound, m_last.temp[9]) /\ FLe(m_last.temp[9], loc.T9_upper_bound)

\* C26: in every state of the T8 and T9 loops of design_core_standard the
\* lower bound is at most the upper bound and the guess lies between them,
\* from the initial bracket on
C26_GuessInBracket == (InDesign /\ InT8Loop => T8Bracketed) /\ (InDesign /\ InT9Loop => T9Bracketed)

\* the T8 loop has repeated a guess with the same residual: its secant guess
\* is 0/0, neither comparison of the overshoot test holds for it, and it
\* becomes the guess of the next iteration
C26_Witness == InDesign /\ pc = "T8_head" /\ loc.T8_iter > 0 /\ m_last.temp[8] = NaN /\ FLe(loc.T8_lower_bound, loc.T8_upper_bound) /\ obs.step = "T8" /\ obs.outcome = "advance" /\ obs.secant_guess = NaN /\ obs.last_guess = obs.guess /\ obs.last_residual = obs.residual

\* the T9 loop, whose overshoot test also catches a secant guess that is not
\* a number, keeps its guess in its bracket; the T8 loop keeps its bounds
\* ordered, and its guess is in the bracket or is not a number
C26_GuessInBracketOrNaN == (InDesign /\ InT9Loop => T9Bracketed) /\ (InDesign /\ InT8Loop => (T8Bracketed \/ (m_last.temp[8] = NaN /\ FLe(loc.T8_lower_bound, loc.T8_upper_bound))))

\* C26: from one iteration of a loop to the next its lower bound does not
\* decrease and its upper bound does not increase
C26_BoundsNarrow == [][(InDesign /\ pc = "T9_iter" /\ pc' = "T9_iter" => (FLe(loc.T9_lower_bound, loc'.T9_lower_bound) /\ FLe(loc'.T9_upper_bound, loc.T9_upper_bound))) /\ (InDesign /\ pc = "T8_body" /\ pc' = "T8_head" => (FLe(loc.T8_lower_bound, loc'.T8_lower_bound) /\ FLe(loc'.T8_upper_bound, loc.T8_upper_bound)))]_vars

TarReturned == pc = "tar_done" /\ ret.call = "target_off_design"
TarLoopRan == TarReturned /\ ret.iter >= 1

\* C27: target_off_design_core returns 82 only when its secant / bisection
\* loop ran all max_iter (100) passes without meeting a convergence
\* condition, and a run whose convergence condition is met in any pass from
\* the first to the 100th returns without error
C27_Error82OnlyUnconverged == TarLoopRan => ((ret.error_code = 82 => (~ret.converged /\ ret.iter = 100 + 1)) /\ (ret.converged => ret.error_code = 0))

\* the convergence condition is met in pass 100 and the code returned is 82
C27_Witness == TarLoopRan /\ ret.converged /\ ret.iter = 100 /\ ret.error_code = 82

\* a convergence condition met in passes 1 to 99 returns without error, and
\* 82 is returned exactly when the loop counter ends at 100 or beyond
C27_Error82FromPass100 == TarLoopRan => ((ret.converged /\ ret.iter < 100 => ret.error_code = 0) /\ (ret.error_code = 82 <=> ret.iter >= 100) /\ (~ret.converged => ret.iter = 100 + 1) /\ ret.error_code \in {0, 82})

InSecantCall == obs.step = "secant"

\* C28: every compressor inlet pressure that the secant / bisection loop of
\* target_off_design_core passes to off_design_core lies within the bracket
\* [P_low, P_high] of that moment, the guess that follows a failed solve
\* included
C28_PressureInBracket == InSecantCall => (FLe(obs.P_low, obs.P_mc_in) /\ FLe(obs.P_mc_in, obs.P_high))

\* the solve before failed, and the pressure now passed is above P_high
C28_Witness == InSecantCall /\ obs.after_failure /\ FLt(obs.P_low, obs.P_high) /\ FGt(obs.P_mc_in, obs.P_high) /\ ms_od_par.m_P_mc_in = obs.P_mc_in

\* unless the solve before failed, the pressure passed lies between P_low
\* and P_high, whichever of the two is the larger
C28_BetweenBoundsUnlessFailed == InSecantCall /\ ~obs.after_failure => ((FLe(obs.P_low, obs.P_mc_in) /\ FLe(obs.P_mc_in, obs.P_high)) \/ (FLe(obs.P_high, obs.P_mc_in) /\ FLe(obs.P_mc_in, obs.P_low)))

TodSetUp == pc # "otod_call" /\ opt.index >= 0 /\ "ms_opt_tar_od_par" \in DOMAIN opt
TodReturned == pc = "otod_done"

\* C29: in optimal_target_off_design_no_check, for each of the 8
\* combinations of pinned and free recompression fraction, compressor speed
\* and turbine speed, the dimension given to the optimizer equals the number
\* of entries of the free-variable vector and of its bound and step vectors,
\* and the optimizer is run whenever at least one variable is free
C29_DimensionIsVectorLength == (TodSetUp => (opt.index = Len(opt.x) /\ opt.index = Len(opt.lb) /\ opt.index = Len(opt.ub) /\ opt.index = Len(opt.scale))) /\ (TodReturned /\ TarFreeCount(opt.ms_opt_tar_od_par) > 0 => opt.optimizer_run)

\* the turbine speed is the one free variable: the vectors have one entry,
\* index is 0, and eta_at_target was called once without the optimizer
C29_Witness == TodReturned /\ opt.ms_opt_tar_od_par.m_fixed_recomp_frac /\ opt.ms_opt_tar_od_par.m_fixed_N_mc /\ ~opt.ms_opt_tar_od_par.m_fixed_N_t /\ Len(opt.x) = 1 /\ Len(opt.lb) = 1 /\ opt.index = 0 /\ ~opt.optimizer_run /\ opt.evals = 1 /\ ret.outcome = "returned"

\* with the turbine speed pinned the claim holds; with it free index is one
\* less than the number of entries of each vector
C29_TurbineSpeedNotCounted == (TodSetUp => (Len(opt.x) = TarFreeCount(opt.ms_opt_tar_od_par) /\ Len(opt.lb) = Len(opt.x) /\ Len(opt.ub) = Len(opt.x) /\ Len(opt.scale) = Len(opt.x) /\ opt.index = Len(opt.x) - (IF opt.ms_opt_tar_od_par.m_fixed_N_t THEN 0 ELSE 1))) /\ (TodReturned => (opt.optimizer_run <=> (opt.ms_opt_tar_od_par.m_fixed_N_t /\ TarFreeCount(opt.ms_opt_tar_od_par) > 0)))


\* ------------------------------------------------------------------------
\* recompressor_sizing

RcReturned == pc = "rcs_done" /\ ret.call = "recompressor_sizing"

RcSucceeded == RcReturned /\ error_code = 0

\* C30: recompressor_sizing reports success only when its loop stopped in a
\* pass where the flow-coefficient residual and the stage-efficiency
\* mismatch were both within the tolerance in absolute value, whatever the
\* sign of the residual; otherwise it runs 100 passes and returns error 1.
C30_SuccessOnlyWithinTolerance ==
    /\ RcSucceeded =>
          /\ FLe(FMul(FAbs(obs.residual), 100000), 1)
          /\ FLe(FMul(FAbs(FSub(obs.eta_stage, obs.eta_2_req)), 1000000), 1)
    /\ (RcReturned /\ error_code = 1) => ret.i = 100

\* a successful return from a pass whose residual is above the tolerance
C30_Witness ==
    /\ RcSucceeded
    /\ obs.breaks
    /\ obs.i = 2
    /\ obs.residual = 15
    /\ obs.eta_stage = obs.eta_2_req
    /\ perf.m_eta_design = obs.eta_stage

\* what the code does ensure: success comes from a pass whose efficiency
\* mismatch is within the tolerance and whose residual is not below zero by
\* more than the tolerance; error 1 comes after 100 passes without a break
C30_SuccessWithoutNegativeResidual ==
    /\ RcSucceeded =>
          /\ ret.broke
          /\ FLe(FMul(FNeg(obs.residual), 100000), 1)
          /\ FLe(FMul(FAbs(FSub(obs.eta_stage, obs.eta_2_req)), 1000000), 1)
          /\ perf.m_eta_design = obs.eta_stage
    /\ (RcReturned /\ error_code = 1) => (ret.i = 100 /\ ~ret.broke)
    /\ (RcReturned /\ error_code # 0) => perf = RcUnsolved

====
